---- MODULE Spec2Model ----
(***************************************************************************)
(* Model of the reliable-propagation engine of cache-array-sync:           *)
(*   PrioritySyncQueue   (src/src/priority_sync_queue.hpp)                 *)
(*   TransactionLog      (src/src/transaction_log.hpp)                     *)
(*   RobustSyncManager   (src/src/robust_sync_manager.hpp)                 *)
(***************************************************************************)
EXTENDS Integers, Sequences, FiniteSets, TLC

(***************************************************************************)
(* Bounds of the model.                                                    *)
(***************************************************************************)
\* number of enqueue calls made by the producers of the queue specification
MaxEnq == 5
\* capacity the stand-alone queue is constructed with (m_maxSize)
QueueCap == 4
\* number of syncFile calls
MaxSync == 1
\* number of batchSync calls, and of paths of a batch
MaxBatches == 1
MaxBatchLen == 2
\* number of clock steps; one step is the recovery grace period
MaxTicks == 1
\* number of start() calls, and of stop() calls, of the run that repeats them
MaxCalls == 2
\* number of passes of the recovery worker that reach the log
MaxPasses == 2
\* the recovery passes of a run on a log that holds an orphan
MaxRecoveryPasses == 3
\* number of times the log file is removed from the log directory
MaxUnlink == 1
\* number of copies that fail although the source file exists
MaxFaults == 1
\* number of performConsistencyCheck calls
MaxChecks == 1
\* number of consistency checks a run starts, above the number of its requests
MaxChecksStarted == 3
\* threads that call the queue on their own
MaxCallers == 2

(***************************************************************************)
(* Program constants.                                                      *)
(***************************************************************************)
\* Configuration::num_threads
num_threads == 1
\* the retry limit of processTask
MAX_RETRIES == 3
\* PrioritySyncQueue(size_t maxSize = 10000)
DefaultMaxSize == 10000
\* recoveryWorker skips transactions younger than 5 minutes
GraceMinutes == 5

(***************************************************************************)
(* enum class SyncPriority                                                 *)
(***************************************************************************)
CRITICAL == 0
HIGH == 1
NORMAL == 2
LOW == 3
BACKGROUND == 4
SyncPriority == CRITICAL..BACKGROUND

VARIABLES
    \* PrioritySyncQueue
    m_tasks,      \* the heap array of the std::priority_queue
    m_maxSize,
    m_shutdown,
    \* TransactionLog
    logFile,              \* the lines of the file m_logStream writes to
    logExists,            \* fs::exists(m_currentLogPath)
    logTail,              \* "newline", or "partial": the last line of the file has no newline
    archive,              \* the files moved to archive/
    m_isOpen,
    m_transactionCache,
    m_nextId,
    logMutex,             \* the thread that holds TransactionLog::m_mutex for good, or "none"
    \* RobustSyncManager
    m_running,
    m_consistencyCheckRequested,
    mainpc,       \* the thread that calls start() and stop()
    api,          \* the thread that calls syncFile()
    wk,           \* the worker threads
    rec,          \* the recovery thread
    con,          \* the consistency thread
    \* the environment
    srcTree,      \* content of each source file, or Missing
    dstTree,      \* content of each destination file, or Missing
    now,          \* system_clock, in minutes
    relock,       \* what this build does when a thread locks a std::mutex it owns
    crashed,      \* std::terminate was called
    \* counters and history
    taskCtr,      \* the counter of SyncTask::generateTaskId
    enqSeq,       \* number of successful enqueues so far
    deqLog,       \* the tasks returned by dequeue, in order
    budget,       \* what is left of the bounds of the model
    smMetric,     \* the values recorded for the metric sync_manager
    ptCount,      \* number of processTask invocations per task id
    txTask,       \* the task id each transaction id was created for
    exhausted,    \* task ids that failed with retry_count = MAX_RETRIES
    lastCall,     \* the last start() or stop() call, and whether it found its work done
    atStop,       \* the tasks (seq) that were queued when stop() was last called
    logCall,      \* the last call a client made on the log, and how it ended
    atCall,       \* the ids whose status on disk was not final when the running
                  \* getPendingTransactions call began
    \* the callers of the queue
    waiters,      \* the threads that call enqueue and dequeue, blocked or not
    \* FileVerification
    files,        \* the files of the two trees: content, mode and mtime of each path
    verifier,     \* m_hashCache, and the last call made with its result
    \* ThreadPool, MockFileSystemMonitor, MetricsCollector
    pool,         \* m_workers, m_tasks, m_stop, and the tasks pushed, taken and run
    monitor,      \* m_callback, m_event_queue, the threads in simulateEvent, and what
                  \* the callback and the callers of getNextEvent and empty received
    metrics       \* m_metrics, and what was recorded and what collect wrote

qvars == <<m_tasks, m_maxSize, m_shutdown, enqSeq, deqLog>>
lvars == <<logFile, logExists, logTail, archive, m_isOpen, m_transactionCache, m_nextId,
           logMutex>>
tvars == <<m_running, m_consistencyCheckRequested, mainpc, api, wk, rec, con>>
evars == <<srcTree, dstTree, now, relock, crashed>>
uvars == <<pool, monitor, metrics>>
\* all of these but metrics
nvars == <<waiters, files, verifier, pool, monitor>>
xvars == <<waiters, files, verifier, uvars>>
hvars == <<taskCtr, budget, smMetric, ptCount, txTask, exhausted, lastCall, atStop, logCall, atCall, xvars>>
vars == <<qvars, lvars, tvars, evars, hvars>>

Paths == {"a"}
Missing == "missing"
Contents == {"v0", "v1"}
Workers == 1..num_threads

\* f with key k set to value v
Put(f, k, v) == [x \in DOMAIN f \cup {k} |-> IF x = k THEN v ELSE f[x]]
EmptyMap == [x \in {} |-> 0]
\* the sequences over a finite set of a length up to n
SeqsUpTo(S, n) == UNION {[1..k -> S] : k \in 0..n}
\* the orderings of a finite set
SeqsOf(S) ==
    {s \in [1..Cardinality(S) -> S] : \A i, j \in 1..Cardinality(S) : i # j => s[i] # s[j]}

\* the vectors of paths batchSync is called with
Batches == SeqsUpTo(Paths, MaxBatchLen)

(***************************************************************************)
(* SyncTask.  tid is the counter part of m_taskId; a copy keeps it.  seq   *)
(* is the position of the task in the order of successful enqueues; the    *)
(* program does not store it (history only).                               *)
(***************************************************************************)
SyncTask(path, operation, priority, id) ==
    [path |-> path, op |-> operation, prio |-> priority, retry |-> 0,
     status |-> "pending", tid |-> id, seq |-> 0]

NoTask == SyncTask("", "", NORMAL, 0)

\* operator< without the reversal
TaskLessNotReversed(a, b) == a.prio < b.prio

\* SyncTask::operator< : reversed, lower priority value means higher priority
TaskLess(a, b) == a.prio > b.prio

(***************************************************************************)
(* std::priority_queue<SyncTask> over a vector: push is push_back followed *)
(* by push_heap, pop is pop_heap followed by pop_back.  Indices below are  *)
(* the 0-based indices of the heap algorithms; s[i + 1] is element i.      *)
(***************************************************************************)
RECURSIVE SiftUp(_, _, _, _)
\* __push_heap(first, holeIndex, topIndex, value)
SiftUp(s, hole, top, value) ==
    IF hole > top /\ TaskLess(s[((hole - 1) \div 2) + 1], value)
    THEN SiftUp([s EXCEPT ![hole + 1] = s[((hole - 1) \div 2) + 1]],
                (hole - 1) \div 2, top, value)
    ELSE [s EXCEPT ![hole + 1] = value]

\* priority_queue::push
HeapPush(s, value) == SiftUp(Append(s, value), Len(s), 0, value)

RECURSIVE SiftDown(_, _, _, _)
\* the while loop of __adjust_heap; yields <<array, holeIndex>>
SiftDown(s, hole, second, len) ==
    IF second < (len - 1) \div 2
    THEN LET c2 == 2 * (second + 1)
             c == IF TaskLess(s[c2 + 1], s[c2]) THEN c2 - 1 ELSE c2
         IN SiftDown([s EXCEPT ![hole + 1] = s[c + 1]], c, c, len)
    ELSE <<s, hole>>

\* __adjust_heap(first, 0, len, value)
AdjustHeap(s, len, value) ==
    LET r == SiftDown(s, 0, 0, len)
        s1 == r[1]
        h1 == r[2]
        lone == (len % 2 = 0) /\ (h1 = (len - 2) \div 2)
        s2 == IF lone THEN [s1 EXCEPT ![h1 + 1] = s1[2 * (h1 + 1)]] ELSE s1
        h2 == IF lone THEN 2 * (h1 + 1) - 1 ELSE h1
    IN SiftUp(s2, h2, 0, value)

\* priority_queue::top
HeapTop(s) == s[1]

\* priority_queue::pop that removes nothing
HeapPopKeepsTop(s) == s

\* priority_queue::pop
HeapPop(s) ==
    IF Len(s) <= 1 THEN << >>
    ELSE LET n == Len(s) - 1
         IN SubSeq(AdjustHeap(s, n, s[n + 1]), 1, n)

(***************************************************************************)
(* PrioritySyncQueue                                                       *)
(***************************************************************************)
\* the wait of enqueue with <= for <
HasRoomOffByOne == Len(m_tasks) <= m_maxSize \/ m_shutdown

\* the predicate enqueue waits for
HasRoom == Len(m_tasks) < m_maxSize \/ m_shutdown

\* the wait of dequeue without m_shutdown
HasTaskIgnoresShutdown == m_tasks # << >>

\* the predicate dequeue waits for
HasTask == m_tasks # << >> \/ m_shutdown

\* enqueue without its test of m_shutdown
QueuePushAfterShutdown(task) ==
    /\ HasRoom
    /\ m_tasks' = HeapPush(m_tasks, [task EXCEPT !.seq = enqSeq + 1])
    /\ enqSeq' = enqSeq + 1
    /\ UNCHANGED <<m_maxSize, m_shutdown, deqLog>>

\* enqueue of a queue whose flag counts only while the engine is stopped
QueuePushWhileRunning(task) ==
    /\ HasRoom
    /\ ~m_shutdown \/ m_running
    /\ m_tasks' = HeapPush(m_tasks, [task EXCEPT !.seq = enqSeq + 1])
    /\ enqSeq' = enqSeq + 1
    /\ UNCHANGED <<m_maxSize, m_shutdown, deqLog>>

\* enqueue returning true: the wait ended with its predicate true, not shut down
QueuePush(task) ==
    /\ HasRoom
    /\ ~m_shutdown
    /\ m_tasks' = HeapPush(m_tasks, [task EXCEPT !.seq = enqSeq + 1])
    /\ enqSeq' = enqSeq + 1
    /\ UNCHANGED <<m_maxSize, m_shutdown, deqLog>>

\* enqueue returning false: shut down, or still full when the timeout expires
QueueReject ==
    /\ ~HasRoom \/ m_shutdown
    /\ UNCHANGED qvars

\* dequeue returning a task
QueuePop ==
    /\ HasTask
    /\ m_tasks # << >>
    /\ deqLog' = Append(deqLog, HeapTop(m_tasks))
    /\ m_tasks' = HeapPop(m_tasks)
    /\ UNCHANGED <<m_maxSize, m_shutdown, enqSeq>>

\* dequeue returning nullopt: still empty when the timeout expires, or empty and shut down
QueueNone ==
    /\ m_tasks = << >>
    /\ UNCHANGED qvars

\* shutdown
QueueShutdown ==
    /\ m_shutdown' = TRUE
    /\ UNCHANGED <<m_tasks, m_maxSize, enqSeq, deqLog>>

(***************************************************************************)
(* TransactionLog.  An operation is a function of the log's state          *)
(*   l = [file, exists, tail, archive, open, cache, next]                  *)
(* to [st, out, res]: the state it leaves, its result, and how it ends:    *)
(* "ok", "relock" when it locks m_mutex a second time, "throw" when an     *)
(* exception leaves it.                                                    *)
(***************************************************************************)
PENDING == "PENDING"
IN_PROGRESS == "IN_PROGRESS"
COMPLETED == "COMPLETED"
FAILED == "FAILED"
ROLLED_BACK == "ROLLED_BACK"

NoId == [ms |-> 0, ctr |-> 0]

LogState == [file |-> logFile, exists |-> logExists, tail |-> logTail, archive |-> archive,
             open |-> m_isOpen, cache |-> m_transactionCache, next |-> m_nextId]

\* TransactionRecord as logTransaction builds it
TransactionRecord(id, sourcePath, t) ==
    [id |-> id, src |-> sourcePath, status |-> PENDING, ts |-> t, err |-> ""]

\* generateTransactionId: "tx-" + epoch time + "-" + counter
TransactionId(l, t) == [ms |-> t, ctr |-> l.next]

\* a line whose text is not JSON
Garbage == [id |-> NoId, src |-> "", status |-> "garbage", ts |-> 0, err |-> ""]
\* Json::parseFromStream succeeds on the line
Parses(line) == line.status # "garbage"
\* the trailing segment of an id that is not a number, as in "tx-5-abc"
NoCtr == -1

\* writeRecord: the text and a newline go to the end of the file, the cache is
\* updated.  After a partial last line the text continues that line: the line
\* still parses as it did (the reader stops after the first JSON value of a line)
WriteRecord(l, r) ==
    [l EXCEPT !.file = IF l.tail = "partial" THEN l.file ELSE Append(l.file, r),
              !.tail = "newline",
              !.cache = Put(l.cache, r.id, r)]

\* the lines the read loop of loadAllTransactions goes through: all of them, or
\* those up to the first record whose counter std::stoull rejects
RECURSIVE ReadPrefix(_)
ReadPrefix(file) ==
    IF file = << >> THEN << >>
    ELSE IF Parses(Head(file)) /\ Head(file).id.ctr = NoCtr THEN <<Head(file)>>
    ELSE <<Head(file)>> \o ReadPrefix(Tail(file))

\* std::stoull throws in the read loop
ReadThrows(file) == \E i \in DOMAIN file : Parses(file[i]) /\ file[i].id.ctr = NoCtr

\* the records of the lines that parse (getline yields the last line with or
\* without its newline)
ParsedLines(file) == SelectSeq(file, Parses)

\* m_transactionCache after the read loop over these records: the last line of each id
Replay(file) ==
    LET ids == {file[i].id : i \in DOMAIN file}
        last(id) == CHOOSE i \in DOMAIN file :
                       /\ file[i].id = id
                       /\ \A j \in DOMAIN file : file[j].id = id => j <= i
    IN [id \in ids |-> file[last(id)]]

RECURSIVE ReplayNextIdStrict(_, _)
\* the update of m_nextId with > for >=
ReplayNextIdStrict(file, next) ==
    IF file = << >> THEN next
    ELSE ReplayNextIdStrict(Tail(file),
                            IF Head(file).id.ctr > next THEN Head(file).id.ctr + 1 ELSE next)

RECURSIVE ReplayNextId(_, _)
\* m_nextId after the read loop of loadAllTransactions
ReplayNextId(file, next) ==
    IF file = << >> THEN next
    ELSE ReplayNextId(Tail(file),
                      IF Head(file).id.ctr >= next THEN Head(file).id.ctr + 1 ELSE next)

\* open() called by a member function that holds m_mutex: the lock_guard of
\* open() locks the mutex its own thread owns
InnerOpen(l) == [st |-> l, out |-> "relock", res |-> FALSE]

\* loadAllTransactions
LoadAllTransactions(l) ==
    LET lines == ParsedLines(ReadPrefix(l.file))
        read == [l EXCEPT !.open = FALSE,
                          !.cache = Replay(lines),
                          !.next = ReplayNextId(lines, l.next)]
    IN IF ~l.exists THEN [st |-> l, out |-> "ok", res |-> TRUE]
       ELSE IF ReadThrows(l.file) THEN [st |-> read, out |-> "throw", res |-> FALSE]
       ELSE IF l.open THEN InnerOpen(read)
       ELSE [st |-> read, out |-> "ok", res |-> TRUE]

\* the guard of logTransaction and updateTransactionStatus: !m_isOpen && !open()
EnsureOpen(l) ==
    IF l.open THEN [st |-> l, out |-> "ok", res |-> TRUE] ELSE InnerOpen(l)

\* logTransaction
LogTransaction(l, sourcePath, t) ==
    LET o == EnsureOpen(l)
        id == TransactionId(o.st, t)
    IN IF o.out # "ok" THEN [o EXCEPT !.res = NoId]
       ELSE IF ~o.res THEN [st |-> o.st, out |-> "ok", res |-> NoId]
       ELSE [st |-> WriteRecord([o.st EXCEPT !.next = @ + 1],
                                TransactionRecord(id, sourcePath, t)),
             out |-> "ok", res |-> id]

\* findTransaction
FindTransaction(l, id) ==
    IF id \in DOMAIN l.cache
    THEN [st |-> l, out |-> "ok", res |-> TRUE]
    ELSE LET ld == LoadAllTransactions(l)
         IN IF ld.out # "ok" THEN ld
            ELSE [ld EXCEPT !.res = (id \in DOMAIN ld.st.cache)]

\* updateTransactionStatus
UpdateTransactionStatus(l, id, status, errorMessage, t) ==
    LET o == EnsureOpen(l)
        f == FindTransaction(o.st, id)
    IN IF o.out # "ok" THEN o
       ELSE IF ~o.res THEN [st |-> o.st, out |-> "ok", res |-> FALSE]
       ELSE IF f.out # "ok" \/ ~f.res THEN f
       ELSE [st |-> WriteRecord(f.st, [f.st.cache[id] EXCEPT !.status = status,
                                                             !.err = errorMessage,
                                                             !.ts = t]),
             out |-> "ok", res |-> TRUE]

\* getTransactionsByStatus; res is the set of records, the caller's vector holds
\* them in the iteration order of the unordered_map
GetTransactionsByStatus(l, status) ==
    LET ld == LoadAllTransactions(l)
    IN IF ld.out # "ok" THEN [ld EXCEPT !.res = {}]
       ELSE [ld EXCEPT !.res = {ld.st.cache[id] : id \in {i \in DOMAIN ld.st.cache :
                                                          ld.st.cache[i].status = status}}]

\* open() called by a client: the stream is opened for append, which creates the
\* file if the directory does not hold it
Open(l) ==
    IF l.open THEN l
    ELSE [l EXCEPT !.open = TRUE,
                   !.exists = TRUE,
                   !.file = IF l.exists THEN @ ELSE << >>,
                   !.tail = IF l.exists THEN @ ELSE "newline"]

\* close
Close(l) == [l EXCEPT !.open = FALSE]

\* rotateLogIfNeeded; the size of a file is its number of lines.  The file is
\* renamed into archive/, m_currentLogPath names a file that does not exist yet,
\* and the function ends in open() with m_mutex held
RotateLogIfNeeded(l, maxSize) ==
    IF ~l.exists THEN [st |-> l, out |-> "ok", res |-> TRUE]
    ELSE IF Len(l.file) < maxSize THEN [st |-> l, out |-> "ok", res |-> TRUE]
    ELSE InnerOpen([l EXCEPT !.open = FALSE,
                             !.archive = @ \cup {l.file},
                             !.file = << >>,
                             !.exists = FALSE,
                             !.tail = "newline",
                             !.cache = EmptyMap])

\* the ids whose last line in the file carries PENDING or IN_PROGRESS
OpenOnDisk(file) ==
    LET last == Replay(ParsedLines(file))
    IN {id \in DOMAIN last : last[id].status \in {PENDING, IN_PROGRESS}}

\* the log's variables after an operation
SetLog(l) ==
    /\ logFile' = l.file
    /\ logExists' = l.exists
    /\ logTail' = l.tail
    /\ archive' = l.archive
    /\ m_isOpen' = l.open
    /\ m_transactionCache' = l.cache
    /\ m_nextId' = l.next

(***************************************************************************)
(* The file system and FileVerification::verifyFile (FAST_HASH), on whole  *)
(* file contents.                                                          *)
(***************************************************************************)
\* the file a path names under the source root, and its copy; the trees hold
\* no other file than those of Paths
SourceFile(path) == IF path \in Paths THEN srcTree[path] ELSE Missing
DestFile(path) == IF path \in Paths THEN dstTree[path] ELSE Missing

VerifyFile(sourcePath) ==
    IF SourceFile(sourcePath) = Missing
    THEN [matches |-> FALSE, err |-> "Source file does not exist"]
    ELSE IF DestFile(sourcePath) = Missing
    THEN [matches |-> FALSE, err |-> "Destination file does not exist"]
    ELSE IF SourceFile(sourcePath) # DestFile(sourcePath)
    THEN [matches |-> FALSE, err |-> "MD5 checksums don't match"]
    ELSE [matches |-> TRUE, err |-> ""]

\* performFullConsistencyCheck: sourceDir, without the root path "/"
SourceDirFromRoot == "path/to/source/"

\* the key verifyDirectory gives the result of a compared pair: the path of the
\* source file without its root path, which still starts with the source directory
PairKey(p) == SourceDirFromRoot \o p

\* the results of verifyDirectory(sourceDir, destDir, FAST_HASH) on the trees,
\* each with the path relative to the source directory it is keyed by
VerifyDirectoryResults ==
    {[rel |-> p, matches |-> FALSE, err |-> "File missing in destination"] :
         p \in {q \in Paths : srcTree[q] # Missing /\ dstTree[q] = Missing}}
    \cup {[rel |-> p, matches |-> FALSE, err |-> "Extra file in destination"] :
         p \in {q \in Paths : srcTree[q] = Missing /\ dstTree[q] # Missing}}
    \cup {[rel |-> PairKey(p), matches |-> VerifyFile(p).matches, err |-> VerifyFile(p).err] :
         p \in {q \in Paths : srcTree[q] # Missing /\ dstTree[q] # Missing}}

\* the results verifyDirectory reports with matches = false
Mismatches == {r \in VerifyDirectoryResults : ~r.matches}

(***************************************************************************)
(* Threads.                                                                *)
(***************************************************************************)
NoThread == <<"none", 0>>
RecThread == <<"recovery", 0>>
ConThread == <<"consistency", 0>>
WorkerThread(w) == <<"worker", w>>

NoWorker == [pc |-> "none", task |-> NoTask, tx |-> NoId, ok |-> FALSE, err |-> ""]
NoRecovery == [pc |-> "none", got |-> << >>, list |-> << >>]
NoConsistency == [pc |-> "none", list |-> << >>, totalFiles |-> 0, mismatches |-> 0]
ApiIdle == [pc |-> "idle", task |-> NoTask, res |-> FALSE, metric |-> "", paths |-> << >>]

Spend(what) == budget' = [budget EXCEPT ![what] = @ - 1]

(***************************************************************************)
(* FileVerification on files of a few bytes.  A path is the sequence of    *)
(* its segments; a file has its bytes, its mtime in seconds, and is        *)
(* readable by the process or not (fs::exists and fs::file_size need no    *)
(* read permission, std::ifstream does).                                   *)
(***************************************************************************)
SIZE_ONLY == "SIZE_ONLY"
TIMESTAMP == "TIMESTAMP"
FAST_HASH == "FAST_HASH"
SECURE_HASH == "SECURE_HASH"
FULL_COMPARE == "FULL_COMPARE"
VerifyMethod == {SIZE_ONLY, TIMESTAMP, FAST_HASH, SECURE_HASH, FULL_COMPARE}

NoFile == [content |-> <<-1>>, readable |-> FALSE, mtime |-> -1]
Directory == [content |-> <<-2>>, readable |-> TRUE, mtime |-> 0]
\* the two roots, absolute paths: the first segment is the root directory
sourceDir == <<"/", "s">>
destDir == <<"/", "d">>
\* the relative paths of the regular files a tree can hold
RelPaths == {<<"a">>, <<"b">>, <<"c">>}
TreePaths == {sourceDir \o r : r \in RelPaths} \cup {destDir \o r : r \in RelPaths}
\* two empty trees
NoFiles == [p \in TreePaths \cup {sourceDir, destDir} |->
               IF p \in TreePaths THEN NoFile ELSE Directory]
is_regular_file(f, p) == f[p] # NoFile /\ f[p] # Directory

\* the value-initialised VerifyResult with matches = false
NoHash == [algo |-> "", of |-> << >>]
NoResult == [matches |-> FALSE, sourceHash |-> NoHash, destHash |-> NoHash, errorMessage |-> ""]
NoVerifier == [m_hashCache |-> EmptyMap, op |-> "", method |-> "", path |-> << >>, result |-> NoResult,
               results |-> << >>, parallel |-> FALSE, maxThreads |-> 0, valid |-> FALSE]

\* calculateMD5 and calculateSHA256: "" when the file cannot be opened; distinct
\* contents have distinct digests
calculateMD5(f, filePath) ==
    IF ~f[filePath].readable THEN NoHash ELSE [algo |-> "md5", of |-> f[filePath].content]
calculateSHA256(f, filePath) ==
    IF ~f[filePath].readable THEN NoHash ELSE [algo |-> "sha256", of |-> f[filePath].content]

\* BUFFER_SIZE of compareFileContent, scaled to files of a few bytes
BUFFER_SIZE == 2

RECURSIVE CompareBuffers(_, _)
\* the read loop of compareFileContent and its return file1.eof() && file2.eof()
CompareBuffers(c1, c2) ==
    LET bytesRead1 == IF Len(c1) < BUFFER_SIZE THEN Len(c1) ELSE BUFFER_SIZE
        bytesRead2 == IF Len(c2) < BUFFER_SIZE THEN Len(c2) ELSE BUFFER_SIZE
    IN IF bytesRead1 # bytesRead2 THEN FALSE
       ELSE IF SubSeq(c1, 1, bytesRead1) # SubSeq(c2, 1, bytesRead2) THEN FALSE
       ELSE IF bytesRead1 < BUFFER_SIZE THEN TRUE
       ELSE CompareBuffers(SubSeq(c1, BUFFER_SIZE + 1, Len(c1)),
                           SubSeq(c2, BUFFER_SIZE + 1, Len(c2)))

\* compareFileContent
compareFileContent(f, file1Path, file2Path) ==
    IF ~f[file1Path].readable \/ ~f[file2Path].readable THEN FALSE
    ELSE CompareBuffers(f[file1Path].content, f[file2Path].content)

\* result.matches = (result.sourceHash == result.destHash)
HashesMatch(sourceHash, destHash) == sourceHash = destHash

\* verifyFile
verifyFile(f, sourcePath, destPath, method) ==
    LET fail(msg) == [NoResult EXCEPT !.errorMessage = msg]
        absDiff == IF f[sourcePath].mtime > f[destPath].mtime
                   THEN f[sourcePath].mtime - f[destPath].mtime
                   ELSE f[destPath].mtime - f[sourcePath].mtime
        hashed(sh, dh, msg) ==
            [matches |-> HashesMatch(sh, dh), sourceHash |-> sh, destHash |-> dh,
             errorMessage |-> IF HashesMatch(sh, dh) THEN "" ELSE msg]
    IN IF f[sourcePath] = NoFile THEN fail("Source file does not exist")
       ELSE IF f[destPath] = NoFile THEN fail("Destination file does not exist")
       ELSE IF Len(f[sourcePath].content) # Len(f[destPath].content)
       THEN fail("File sizes don't match")
       ELSE IF method = SIZE_ONLY THEN [NoResult EXCEPT !.matches = TRUE]
       ELSE IF method = TIMESTAMP
       THEN IF absDiff <= 1 THEN [NoResult EXCEPT !.matches = TRUE]
            ELSE fail("Timestamps don't match within threshold")
       ELSE IF method = FAST_HASH
       THEN hashed(calculateMD5(f, sourcePath), calculateMD5(f, destPath),
                   "MD5 checksums don't match")
       ELSE IF method = SECURE_HASH
       THEN hashed(calculateSHA256(f, sourcePath), calculateSHA256(f, destPath),
                   "SHA-256 checksums don't match")
       ELSE IF compareFileContent(f, sourcePath, destPath)
       THEN [NoResult EXCEPT !.matches = TRUE]
       ELSE fail("File contents don't match")

\* entry.path().string().substr(dir.length()) without its leading separator
RelativeTo(dir, p) == SubSeq(p, Len(dir) + 1, Len(p))

\* relPath.substr(root_path().string().length()): the path without its root
StripRoot(p) == IF p # << >> /\ Head(p) = "/" THEN Tail(p) ELSE p

\* std::min(maxThreads, static_cast<int>(filePairs.size()))
NumThreads(maxThreads, n) == IF maxThreads < n THEN maxThreads ELSE n

RECURSIVE WorkerResults(_, _, _, _, _)
\* the loop of one async task: for (j = i; j < filePairs.size(); j += numThreads)
WorkerResults(f, filePairs, method, j, numThreads) ==
    IF j >= Len(filePairs) THEN << >>
    ELSE <<[path |-> StripRoot(filePairs[j + 1][1]),
            result |-> verifyFile(f, filePairs[j + 1][1], filePairs[j + 1][2], method)]>>
         \o WorkerResults(f, filePairs, method, j + numThreads, numThreads)

RECURSIVE AllWorkers(_, _, _, _, _)
\* the results of workers i .. numThreads - 1, one worker after the other (the
\* workers append under resultsMutex in any order; the multiset is the same)
AllWorkers(f, filePairs, method, i, numThreads) ==
    IF i >= numThreads THEN << >>
    ELSE WorkerResults(f, filePairs, method, i, numThreads)
         \o AllWorkers(f, filePairs, method, i + 1, numThreads)

RECURSIVE SourceScan(_, _, _, _)
\* the first loop over the entries of sourceDir, in the order the iterator yields
\* them: <<filePairs, results>>
SourceScan(f, src, dst, order) ==
    IF order = << >> THEN << << >>, << >> >>
    ELSE LET r == Head(order)
             rest == SourceScan(f, src, dst, Tail(order))
         IN IF ~is_regular_file(f, src \o r) THEN rest
            ELSE IF is_regular_file(f, dst \o r)
            THEN << << <<src \o r, dst \o r>> >> \o rest[1], rest[2] >>
            ELSE << rest[1],
                    <<[path |-> RelativeTo(src, src \o r),
                       result |-> [NoResult EXCEPT !.errorMessage =
                                                       "File missing in destination"]]>>
                    \o rest[2] >>

RECURSIVE DestScan(_, _, _, _)
\* the second loop, over the entries of destDir
DestScan(f, src, dst, order) ==
    IF order = << >> THEN << >>
    ELSE LET r == Head(order)
         IN (IF is_regular_file(f, dst \o r) /\ ~is_regular_file(f, src \o r)
             THEN <<[path |-> RelativeTo(dst, dst \o r),
                     result |-> [NoResult EXCEPT !.errorMessage =
                                                     "Extra file in destination"]]>>
             ELSE << >>)
            \o DestScan(f, src, dst, Tail(order))

\* verifyDirectory; order is the order in which recursive_directory_iterator
\* yields the entries of a tree
verifyDirectory(f, src, dst, method, parallel, maxThreads, order) ==
    LET scan == SourceScan(f, src, dst, order)
        filePairs == scan[1]
        numThreads == NumThreads(maxThreads, Len(filePairs))
    IN IF f[src] # Directory
       THEN <<[path |-> << >>,
               result |-> [NoResult EXCEPT !.errorMessage =
                              "Source directory does not exist or is not a directory"]]>>
       ELSE IF f[dst] # Directory
       THEN <<[path |-> << >>,
               result |-> [NoResult EXCEPT !.errorMessage =
                              "Destination directory does not exist or is not a directory"]]>>
       ELSE scan[2] \o DestScan(f, src, dst, order)
            \o (IF parallel /\ Len(filePairs) > 1
                THEN AllWorkers(f, filePairs, method, 0, numThreads)
                ELSE WorkerResults(f, filePairs, method, 0, 1))

\* cacheHash at time t: the entry holds the hash, the time of the call and the
\* size of the file (0 when file_size throws).  mtimeThen is the mtime the file
\* had at that moment; the program does not store it (history only)
cacheHash(cache, f, filePath, hash, t) ==
    Put(cache, filePath,
        [hash |-> hash, timestamp |-> t,
         fileSize |-> IF f[filePath] = NoFile THEN 0 ELSE Len(f[filePath].content),
         mtimeThen |-> f[filePath].mtime])

\* isCacheValid: no entry; file_size throws; the size differs or the file was
\* modified after the hash was cached; otherwise the cached hash
isCacheValid(cache, f, filePath) ==
    IF filePath \notin DOMAIN cache THEN [valid |-> FALSE, cachedHash |-> NoHash]
    ELSE IF f[filePath] = NoFile THEN [valid |-> FALSE, cachedHash |-> NoHash]
    ELSE IF \/ Len(f[filePath].content) # cache[filePath].fileSize
            \/ f[filePath].mtime > cache[filePath].timestamp
    THEN [valid |-> FALSE, cachedHash |-> NoHash]
    ELSE [valid |-> TRUE, cachedHash |-> cache[filePath].hash]

\* the threads that call enqueue and dequeue on a queue of their own
QueueCallers == 1..MaxCallers
\* a thread that is in no call: op and res are those of its last call, how tells
\* whether that call returned at once, after a notification, or at its timeout;
\* n counts the calls the thread has made (history only)
NoCaller == [pc |-> "idle", notified |-> FALSE, op |-> "", task |-> NoTask, res |-> "", how |-> "",
             n |-> 0]

\* ---------------------------------------------------------------------------
\* MetricsCollector

MetricThreads == {"r1", "r2"}
MetricNames == {"cpu", "mem"}
MetricValues == {"1", "2"}

\* Metric
Metric(name, value, timestamp) == [name |-> name, value |-> value, timestamp |-> timestamp]

\* the line collect writes for a metric
MetricLine(metric) == metric.name \o ": " \o metric.value

\* MetricsCollector after its construction
NoMetrics == [m_metrics |-> << >>, recorded |-> << >>, out |-> << >>, collects |-> << >>]

\* recordMetric, called by the thread by at the time t
recordMetric(m, name, value, t, by) ==
    [m EXCEPT !.m_metrics = Append(@, Metric(name, value, t)),
              !.recorded = Append(@, [name |-> name, value |-> value, by |-> by])]

\* the lines collect writes for m_metrics
MetricLines(m) == [i \in DOMAIN m |-> MetricLine(m[i])]

\* m_metrics.clear() that removes nothing
ClearNothing(m) == m

\* m_metrics.clear()
ClearMetrics(m) == << >>

\* a log operation can start: the process lives and no thread sits on the log's mutex
LogFree == ~crashed /\ logMutex = NoThread

(***************************************************************************)
(* RobustSyncManager::workerThread and processTask                         *)
(***************************************************************************)
\* a worker locked the log's mutex twice: it blocks for good, or the
\* system_error leaves the thread function and std::terminate ends the process
WorkerRelock(w) ==
    IF relock = "deadlock"
    THEN /\ wk' = [wk EXCEPT ![w].pc = "deadlock"]
         /\ logMutex' = WorkerThread(w)
         /\ UNCHANGED crashed
    ELSE /\ crashed' = TRUE
         /\ UNCHANGED <<wk, logMutex>>

\* while (m_running)
WorkerLoop(w) ==
    /\ ~crashed
    /\ wk[w].pc = "loop"
    /\ wk' = [wk EXCEPT ![w].pc = IF m_running THEN "dequeue" ELSE "done"]
    /\ UNCHANGED <<qvars, lvars, evars, hvars>>
    /\ UNCHANGED <<m_running, m_consistencyCheckRequested, mainpc, api, rec, con>>

\* m_syncQueue.dequeue(100 ms); a task goes to processTask
WorkerDequeue(w) ==
    /\ ~crashed
    /\ wk[w].pc = "dequeue"
    /\ \/ /\ QueuePop
          /\ wk' = [wk EXCEPT ![w].pc = "pt_log", ![w].task = HeapTop(m_tasks),
                              ![w].tx = NoId, ![w].ok = FALSE, ![w].err = ""]
          /\ ptCount' = Put(ptCount, HeapTop(m_tasks).tid,
                            IF HeapTop(m_tasks).tid \in DOMAIN ptCount
                            THEN ptCount[HeapTop(m_tasks).tid] + 1 ELSE 1)
       \/ /\ QueueNone
          /\ wk' = [wk EXCEPT ![w].pc = "loop"]
          /\ UNCHANGED ptCount
    /\ UNCHANGED <<lvars, evars, taskCtr, budget, smMetric, txTask, exhausted, lastCall, atStop, logCall, atCall, xvars>>
    /\ UNCHANGED <<m_running, m_consistencyCheckRequested, mainpc, api, rec, con>>

\* processTask: logTransaction(COPY, sourcePath, destPath)
WorkerLogTransaction(w) ==
    /\ LogFree
    /\ wk[w].pc = "pt_log"
    /\ LET r == LogTransaction(LogState, wk[w].task.path, now)
       IN /\ SetLog(r.st)
          /\ IF r.out = "relock"
             THEN WorkerRelock(w) /\ UNCHANGED <<txTask, metrics>>
             ELSE /\ IF r.res = NoId
                     THEN /\ wk' = [wk EXCEPT ![w].pc = "loop"]
                          /\ metrics' = recordMetric(metrics, "tx_log_failed", wk[w].task.path,
                                                     now, WorkerThread(w))
                          /\ UNCHANGED txTask
                     ELSE /\ wk' = [wk EXCEPT ![w].pc = "pt_inprogress", ![w].tx = r.res]
                          /\ metrics' = recordMetric(metrics, "tx_started", r.res, now,
                                                     WorkerThread(w))
                          /\ txTask' = Put(txTask, r.res, wk[w].task.tid)
                  /\ UNCHANGED <<logMutex, crashed>>
    /\ UNCHANGED <<qvars, srcTree, dstTree, now, relock>>
    /\ UNCHANGED <<taskCtr, budget, smMetric, ptCount, exhausted, lastCall, atStop, logCall, atCall, nvars>>
    /\ UNCHANGED <<m_running, m_consistencyCheckRequested, mainpc, api, rec, con>>

\* processTask: updateTransactionStatus(txId, IN_PROGRESS)
WorkerInProgress(w) ==
    /\ LogFree
    /\ wk[w].pc = "pt_inprogress"
    /\ LET r == UpdateTransactionStatus(LogState, wk[w].tx, IN_PROGRESS, "", now)
       IN /\ SetLog(r.st)
          /\ IF r.out = "relock"
             THEN WorkerRelock(w)
             ELSE /\ wk' = [wk EXCEPT ![w].pc = "pt_copy"]
                  /\ UNCHANGED <<logMutex, crashed>>
    /\ UNCHANGED <<qvars, srcTree, dstTree, now, relock, hvars>>
    /\ UNCHANGED <<m_running, m_consistencyCheckRequested, mainpc, api, rec, con>>

\* performSyncOperation: the copy; or the exception of fs::copy, caught, when
\* the source is missing or the file system fails
WorkerCopy(w) ==
    /\ ~crashed
    /\ wk[w].pc = "pt_copy"
    /\ \/ /\ SourceFile(wk[w].task.path) # Missing
          /\ dstTree' = [dstTree EXCEPT ![wk[w].task.path] = srcTree[wk[w].task.path]]
          /\ wk' = [wk EXCEPT ![w].pc = "pt_verify", ![w].ok = TRUE]
          /\ UNCHANGED budget
       \/ /\ SourceFile(wk[w].task.path) = Missing
          /\ wk' = [wk EXCEPT ![w].pc = "pt_final", ![w].ok = FALSE,
                              ![w].err = "Sync operation failed"]
          /\ UNCHANGED <<dstTree, budget>>
       \/ /\ SourceFile(wk[w].task.path) # Missing
          /\ budget.faults > 0
          /\ Spend("faults")
          /\ wk' = [wk EXCEPT ![w].pc = "pt_final", ![w].ok = FALSE,
                              ![w].err = "Sync operation failed"]
          /\ UNCHANGED dstTree
    /\ UNCHANGED <<qvars, lvars, srcTree, now, relock, crashed>>
    /\ UNCHANGED <<taskCtr, smMetric, ptCount, txTask, exhausted, lastCall, atStop, logCall, atCall, xvars>>
    /\ UNCHANGED <<m_running, m_consistencyCheckRequested, mainpc, api, rec, con>>

\* m_fileVerifier->verifyFile(sourcePath, destPath)
WorkerVerify(w) ==
    /\ ~crashed
    /\ wk[w].pc = "pt_verify"
    /\ wk' = [wk EXCEPT ![w].pc = "pt_final",
                        ![w].ok = VerifyFile(wk[w].task.path).matches,
                        ![w].err = VerifyFile(wk[w].task.path).err]
    /\ metrics' = recordMetric(metrics, "sync_verification",
                               IF VerifyFile(wk[w].task.path).matches THEN "success"
                               ELSE "failed: " \o VerifyFile(wk[w].task.path).err,
                               now, WorkerThread(w))
    /\ UNCHANGED <<qvars, lvars, evars>>
    /\ UNCHANGED <<taskCtr, budget, smMetric, ptCount, txTask, exhausted, lastCall, atStop, logCall, atCall, nvars>>
    /\ UNCHANGED <<m_running, m_consistencyCheckRequested, mainpc, api, rec, con>>

\* processTask: the status written when the copy and the verification are over
FinalStatus(ok) == IF ok THEN COMPLETED ELSE FAILED

\* the retry test with <= for <
ShouldRetryOffByOne(task) == task.retry <= MAX_RETRIES

\* processTask: if (task.getRetryCount() < 3)
ShouldRetry(task) == task.retry < MAX_RETRIES

\* processTask: COMPLETED, or FAILED and the retry decision
WorkerFinal(w) ==
    /\ LogFree
    /\ wk[w].pc = "pt_final"
    /\ LET r == UpdateTransactionStatus(LogState, wk[w].tx, FinalStatus(wk[w].ok),
                                        wk[w].err, now)
       IN /\ SetLog(r.st)
          /\ IF r.out = "relock"
             THEN WorkerRelock(w) /\ UNCHANGED <<exhausted, metrics>>
             ELSE /\ wk' = [wk EXCEPT ![w].pc =
                               IF ~wk[w].ok /\ ShouldRetry(wk[w].task)
                               THEN "pt_retry" ELSE "loop"]
                  /\ metrics' = recordMetric(metrics,
                                             IF wk[w].ok THEN "tx_completed" ELSE "tx_failed",
                                             wk[w].tx, now, WorkerThread(w))
                  /\ exhausted' = IF ~wk[w].ok /\ ~ShouldRetry(wk[w].task)
                                  THEN exhausted \cup {wk[w].task.tid} ELSE exhausted
                  /\ UNCHANGED <<logMutex, crashed>>
    /\ UNCHANGED <<qvars, srcTree, dstTree, now, relock>>
    /\ UNCHANGED <<taskCtr, budget, smMetric, ptCount, txTask, lastCall, atStop, logCall, atCall, nvars>>
    /\ UNCHANGED <<m_running, m_consistencyCheckRequested, mainpc, api, rec, con>>

\* processTask: the copy of the task that is queued again
RetryTask(task) == [task EXCEPT !.retry = @ + 1, !.status = "retry"]

\* processTask: after the 5 s sleep, m_syncQueue.enqueue(retryTask)
WorkerRetry(w) ==
    /\ ~crashed
    /\ wk[w].pc = "pt_retry"
    /\ QueuePush(RetryTask(wk[w].task)) \/ QueueReject
    /\ wk' = [wk EXCEPT ![w].pc = "loop"]
    /\ metrics' = recordMetric(metrics, "tx_retry", wk[w].tx, now, WorkerThread(w))
    /\ UNCHANGED <<lvars, evars>>
    /\ UNCHANGED <<taskCtr, budget, smMetric, ptCount, txTask, exhausted, lastCall, atStop, logCall, atCall, nvars>>
    /\ UNCHANGED <<m_running, m_consistencyCheckRequested, mainpc, api, rec, con>>

(***************************************************************************)
(* RobustSyncManager::recoveryWorker and recoverTransaction                *)
(***************************************************************************)
\* the recovery thread locked the log's mutex twice: it blocks for good, or the
\* system_error is caught by the catch of recoveryWorker, which records
\* recovery_error, and the loop goes on; m holds the metrics of the step so far
RecoveryRelock(m) ==
    IF relock = "deadlock"
    THEN /\ rec' = [rec EXCEPT !.pc = "deadlock"]
         /\ logMutex' = RecThread
         /\ metrics' = m
    ELSE /\ rec' = [pc |-> "sleep", got |-> << >>, list |-> << >>]
         /\ metrics' = recordMetric(m, "recovery_error", "what", now, RecThread)
         /\ UNCHANGED logMutex

\* the end of the one minute sleep: if (!m_running) break
RecoveryWake ==
    /\ ~crashed
    /\ rec.pc = "sleep"
    /\ IF m_running
       THEN /\ budget.passes > 0
            /\ Spend("passes")
            /\ rec' = [rec EXCEPT !.pc = "get1"]
       ELSE /\ rec' = [rec EXCEPT !.pc = "done"]
            /\ UNCHANGED budget
    /\ UNCHANGED <<qvars, lvars, evars, taskCtr, smMetric, ptCount, txTask, exhausted, lastCall, atStop, logCall, atCall, xvars>>
    /\ UNCHANGED <<m_running, m_consistencyCheckRequested, mainpc, api, wk, con>>

\* getPendingTransactions: getTransactionsByStatus(IN_PROGRESS)
RecoveryGetInProgress ==
    /\ LogFree
    /\ rec.pc = "get1"
    /\ LET r == GetTransactionsByStatus(LogState, IN_PROGRESS)
       IN /\ SetLog(r.st)
          /\ IF r.out = "relock"
             THEN RecoveryRelock(metrics)
             ELSE /\ \E order \in SeqsOf(r.res) :
                        rec' = [rec EXCEPT !.pc = "get2", !.got = order]
                  /\ UNCHANGED <<logMutex, metrics>>
    /\ atCall' = OpenOnDisk(logFile)
    /\ UNCHANGED <<qvars, evars>>
    /\ UNCHANGED <<taskCtr, budget, smMetric, ptCount, txTask, exhausted, lastCall, atStop, logCall, nvars>>
    /\ UNCHANGED <<m_running, m_consistencyCheckRequested, mainpc, api, wk, con>>

\* getPendingTransactions: getTransactionsByStatus(PENDING), appended to the first result
RecoveryGetPending ==
    /\ LogFree
    /\ rec.pc = "get2"
    /\ LET r == GetTransactionsByStatus(LogState, PENDING)
       IN /\ SetLog(r.st)
          /\ IF r.out = "relock"
             THEN RecoveryRelock(metrics)
             ELSE /\ \E order \in SeqsOf(r.res) :
                        rec' = [rec EXCEPT !.pc = "iter", !.got = << >>,
                                           !.list = rec.got \o order]
                  /\ metrics' = IF rec.got = << >> /\ r.res = {}
                                 THEN metrics
                                 ELSE recordMetric(metrics, "recovery_started",
                                                   [found |-> Len(rec.got) + Cardinality(r.res)],
                                                   now, RecThread)
                  /\ UNCHANGED logMutex
    /\ atCall' = {}
    /\ UNCHANGED <<qvars, evars>>
    /\ UNCHANGED <<taskCtr, budget, smMetric, ptCount, txTask, exhausted, lastCall, atStop, logCall, nvars>>
    /\ UNCHANGED <<m_running, m_consistencyCheckRequested, mainpc, api, wk, con>>

\* the test of the age with no grace period
TooNewNoGrace(tx, t) == t - tx.ts < 0

\* recoveryWorker: txAge < 5 minutes
TooNew(tx, t) == t - tx.ts < GraceMinutes

\* one iteration of the for loop of recoveryWorker; after the last one the loop
\* goes back to its sleep
RecoveryIterate ==
    /\ ~crashed
    /\ rec.pc = "iter"
    /\ IF rec.list = << >>
       THEN /\ rec' = [rec EXCEPT !.pc = "sleep"]
            /\ UNCHANGED <<qvars, lvars, taskCtr, metrics>>
       ELSE LET tx == Head(rec.list)
                attempt == recordMetric(metrics, "tx_recovery_attempt", tx.id, now, RecThread)
            IN
            IF TooNew(tx, now)
            THEN /\ rec' = [rec EXCEPT !.list = Tail(rec.list)]
                 /\ UNCHANGED <<qvars, lvars, taskCtr, metrics>>
            ELSE IF SourceFile(tx.src) = Missing
            THEN \* recoverTransaction: the source is gone
                 /\ logMutex = NoThread
                 /\ LET r == UpdateTransactionStatus(LogState, tx.id, FAILED,
                                                     "Source file no longer exists", now)
                    IN /\ SetLog(r.st)
                       /\ IF r.out = "relock"
                          THEN RecoveryRelock(attempt)
                          ELSE /\ rec' = [rec EXCEPT !.list = Tail(rec.list)]
                               /\ metrics' = recordMetric(attempt, "tx_recovery_failed",
                                                           [id |-> tx.id, why |-> "source missing"],
                                                           now, RecThread)
                               /\ UNCHANGED logMutex
                 /\ UNCHANGED <<qvars, taskCtr>>
            ELSE \* recoverTransaction: a RECOVERY task at HIGH priority
                 /\ taskCtr' = taskCtr + 1
                 /\ \/ /\ QueuePush(SyncTask(tx.src, "RECOVERY", HIGH, taskCtr + 1))
                       /\ metrics' = recordMetric(attempt, "tx_recovery_queued", tx.id,
                                                   now, RecThread)
                    \/ /\ QueueReject
                       /\ metrics' = recordMetric(attempt, "tx_recovery_queue_failed", tx.id,
                                                   now, RecThread)
                 /\ rec' = [rec EXCEPT !.list = Tail(rec.list)]
                 /\ UNCHANGED lvars
    /\ UNCHANGED <<evars, budget, smMetric, ptCount, txTask, exhausted, lastCall, atStop, logCall, atCall, nvars>>
    /\ UNCHANGED <<m_running, m_consistencyCheckRequested, mainpc, api, wk, con>>

(***************************************************************************)
(* RobustSyncManager::consistencyWorker and performFullConsistencyCheck    *)
(***************************************************************************)
\* the consistency_check metrics recorded with the value "started"
ChecksStarted ==
    Len(SelectSeq(metrics.recorded, LAMBDA r : r.name = "consistency_check"))

\* the end of the inner loop of consistencyWorker, when a request is seen after
\* a one minute sleep or the engine is seen stopped (the six hours of the other
\* exit are beyond the clock of the model)
ConsistencyWake ==
    /\ ~crashed
    /\ con.pc = "sleep"
    /\ ~m_running \/ m_consistencyCheckRequested
    /\ con' = [con EXCEPT !.pc = "woken"]
    /\ UNCHANGED <<qvars, lvars, evars, hvars>>
    /\ UNCHANGED <<m_running, m_consistencyCheckRequested, mainpc, api, wk, rec>>

\* m_consistencyCheckRequested = false that leaves the flag as it is
KeepRequest(flag) == flag

\* m_consistencyCheckRequested = false
ClearRequest(flag) == FALSE

\* if (!m_running) break; the flag is cleared; performFullConsistencyCheck
\* records its start and verifyDirectory scans the trees
ConsistencyStart ==
    /\ ~crashed
    /\ con.pc = "woken"
    /\ IF m_running
       THEN /\ ChecksStarted < MaxChecksStarted
            /\ m_consistencyCheckRequested' = ClearRequest(m_consistencyCheckRequested)
            /\ \E order \in SeqsOf(VerifyDirectoryResults) :
                  con' = [pc |-> "enqueue", list |-> order, totalFiles |-> 0, mismatches |-> 0]
            /\ metrics' = recordMetric(metrics, "consistency_check", "started", now, ConThread)
       ELSE /\ con' = [con EXCEPT !.pc = "done"]
            /\ UNCHANGED <<m_consistencyCheckRequested, metrics>>
    /\ UNCHANGED <<qvars, lvars, evars>>
    /\ UNCHANGED <<taskCtr, budget, smMetric, ptCount, txTask, exhausted, lastCall, atStop, logCall, atCall, nvars>>
    /\ UNCHANGED <<m_running, mainpc, api, wk, rec>>

\* performFullConsistencyCheck: one iteration of the loop over the results, a
\* result with matches = false queued at LOW priority under sourceDir / its key;
\* after the last one consistency_check_complete carries the two counts
ConsistencyEnqueue ==
    /\ ~crashed
    /\ con.pc = "enqueue"
    /\ IF con.list = << >>
       THEN /\ con' = [con EXCEPT !.pc = "sleep"]
            /\ metrics' = recordMetric(metrics, "consistency_check_complete",
                                        [files |-> con.totalFiles, mismatches |-> con.mismatches],
                                        now, ConThread)
            /\ UNCHANGED <<qvars, taskCtr>>
       ELSE IF Head(con.list).matches
       THEN /\ con' = [con EXCEPT !.list = Tail(con.list), !.totalFiles = @ + 1]
            /\ UNCHANGED <<qvars, taskCtr, metrics>>
       ELSE /\ taskCtr' = taskCtr + 1
            /\ \/ QueuePush(SyncTask(Head(con.list).rel, "CONSISTENCY", LOW, taskCtr + 1))
               \/ QueueReject
            /\ con' = [con EXCEPT !.list = Tail(con.list), !.totalFiles = @ + 1,
                                   !.mismatches = @ + 1]
            /\ metrics' = recordMetric(metrics, "consistency_mismatch", Head(con.list).rel,
                                        now, ConThread)
    /\ UNCHANGED <<lvars, evars, budget, smMetric, ptCount, txTask, exhausted, lastCall, atStop, logCall, atCall, nvars>>
    /\ UNCHANGED <<m_running, m_consistencyCheckRequested, mainpc, api, wk, rec>>

(***************************************************************************)
(* RobustSyncManager: start, stop, syncFile, performConsistencyCheck       *)
(***************************************************************************)
\* start() without its test of m_running
StartUnguarded ==
    /\ ~crashed
    /\ mainpc = "idle"
    /\ budget.starts > 0
    /\ Spend("starts")
    /\ m_running' = TRUE
    /\ wk' = [w \in Workers |-> [NoWorker EXCEPT !.pc = "loop"]]
    /\ rec' = [NoRecovery EXCEPT !.pc = "sleep"]
    /\ con' = [NoConsistency EXCEPT !.pc = "sleep"]
    /\ smMetric' = Append(smMetric, "started")
    /\ lastCall' = [op |-> "start", noop |-> m_running]
    /\ UNCHANGED <<qvars, lvars, evars, taskCtr, ptCount, txTask, exhausted, atStop, logCall, atCall, xvars>>
    /\ UNCHANGED <<m_consistencyCheckRequested, mainpc, api>>

\* start(); nothing happens when the engine runs
Start ==
    /\ ~crashed
    /\ mainpc = "idle"
    /\ budget.starts > 0
    /\ Spend("starts")
    /\ IF m_running
       THEN /\ lastCall' = [op |-> "start", noop |-> TRUE]
            /\ UNCHANGED <<m_running, wk, rec, con, smMetric>>
       ELSE /\ m_running' = TRUE
            /\ wk' = [w \in Workers |-> [NoWorker EXCEPT !.pc = "loop"]]
            /\ rec' = [NoRecovery EXCEPT !.pc = "sleep"]
            /\ con' = [NoConsistency EXCEPT !.pc = "sleep"]
            /\ smMetric' = Append(smMetric, "started")
            /\ lastCall' = [op |-> "start", noop |-> FALSE]
    /\ UNCHANGED <<qvars, lvars, evars, taskCtr, ptCount, txTask, exhausted, atStop, logCall, atCall, xvars>>
    /\ UNCHANGED <<m_consistencyCheckRequested, mainpc, api>>

\* stop() up to m_running = false; nothing happens when the engine does not run
StopCall ==
    /\ ~crashed
    /\ mainpc = "idle"
    /\ budget.stops > 0
    /\ Spend("stops")
    /\ IF m_running
       THEN /\ m_running' = FALSE
            /\ mainpc' = "shutdown"
            /\ lastCall' = [op |-> "stop", noop |-> FALSE]
            /\ atStop' = {m_tasks[i].seq : i \in DOMAIN m_tasks}
       ELSE /\ lastCall' = [op |-> "stop", noop |-> TRUE]
            /\ UNCHANGED <<m_running, mainpc, atStop>>
    /\ UNCHANGED <<qvars, lvars, evars, taskCtr, smMetric, ptCount, txTask, exhausted, logCall, atCall, xvars>>
    /\ UNCHANGED <<m_consistencyCheckRequested, api, wk, rec, con>>

\* stop(): m_syncQueue.shutdown()
StopShutdown ==
    /\ ~crashed
    /\ mainpc = "shutdown"
    /\ QueueShutdown
    /\ mainpc' = "join"
    /\ UNCHANGED <<lvars, evars, hvars>>
    /\ UNCHANGED <<m_running, m_consistencyCheckRequested, api, wk, rec, con>>

\* every thread function has returned
AllDone == (\A w \in Workers : wk[w].pc = "done") /\ rec.pc = "done" /\ con.pc = "done"

\* stop(): the joins have returned; m_workers.clear(), m_transactionLog.close(),
\* the metric
StopJoin ==
    /\ LogFree
    /\ mainpc = "join"
    /\ AllDone
    /\ wk' = [w \in Workers |-> NoWorker]
    /\ rec' = NoRecovery
    /\ con' = NoConsistency
    /\ SetLog(Close(LogState))
    /\ smMetric' = Append(smMetric, "stopped")
    /\ mainpc' = "idle"
    /\ UNCHANGED <<qvars, logMutex, evars, taskCtr, budget, ptCount, txTask, exhausted, lastCall, atStop, logCall, atCall, xvars>>
    /\ UNCHANGED <<m_running, m_consistencyCheckRequested, api>>

\* syncFile: if (!m_running) return false; the task is built
SyncFileCall(path, priority) ==
    /\ ~crashed
    /\ api.pc = "idle"
    /\ budget.sync > 0
    /\ Spend("sync")
    /\ IF m_running
       THEN /\ taskCtr' = taskCtr + 1
            /\ api' = [pc |-> "enqueue", res |-> FALSE, metric |-> "", paths |-> << >>,
                       task |-> SyncTask(path, "SYNC", priority, taskCtr + 1)]
       ELSE /\ api' = ApiIdle
            /\ UNCHANGED taskCtr
    /\ UNCHANGED <<qvars, lvars, evars, smMetric, ptCount, txTask, exhausted, lastCall, atStop, logCall, atCall, xvars>>
    /\ UNCHANGED <<m_running, m_consistencyCheckRequested, mainpc, wk, rec, con>>

\* syncFile: m_syncQueue.enqueue(task), the metric and the return
SyncFileEnqueue ==
    /\ ~crashed
    /\ api.pc = "enqueue"
    /\ \/ /\ QueuePush(api.task)
          /\ api' = [api EXCEPT !.pc = "idle", !.res = TRUE, !.metric = "file_queued"]
       \/ /\ QueueReject
          /\ api' = [api EXCEPT !.pc = "idle", !.res = FALSE, !.metric = "file_queue_failed"]
    /\ UNCHANGED <<lvars, evars, hvars>>
    /\ UNCHANGED <<m_running, m_consistencyCheckRequested, mainpc, wk, rec, con>>

\* batchSync: if (!m_running) return false; allQueued = true; with no path the
\* loop has no iteration and the call returns allQueued
BatchSyncCall(paths) ==
    /\ ~crashed
    /\ api.pc = "idle"
    /\ budget.batches > 0
    /\ Spend("batches")
    /\ api' = IF ~m_running THEN ApiIdle
              ELSE IF paths = << >> THEN [ApiIdle EXCEPT !.res = TRUE]
              ELSE [ApiIdle EXCEPT !.pc = "batch", !.res = TRUE, !.paths = paths]
    /\ UNCHANGED <<qvars, lvars, evars, taskCtr, smMetric, ptCount, txTask, exhausted, lastCall, atStop, logCall, atCall, xvars>>
    /\ UNCHANGED <<m_running, m_consistencyCheckRequested, mainpc, wk, rec, con>>

\* batchSync: one iteration of the loop, m_syncQueue.enqueue(task) and the
\* metric; after the last one the call returns allQueued
BatchSyncEnqueue ==
    /\ ~crashed
    /\ api.pc = "batch"
    /\ taskCtr' = taskCtr + 1
    /\ LET rest == Tail(api.paths)
           pc == IF rest = << >> THEN "idle" ELSE "batch"
       IN \/ /\ QueuePush(SyncTask(Head(api.paths), "SYNC", NORMAL, taskCtr + 1))
             /\ api' = [api EXCEPT !.pc = pc, !.paths = rest, !.metric = "file_queued"]
          \/ /\ QueueReject
             /\ api' = [api EXCEPT !.pc = pc, !.paths = rest, !.res = FALSE,
                                   !.metric = "file_queue_failed"]
    /\ UNCHANGED <<lvars, evars, budget, smMetric, ptCount, txTask, exhausted, lastCall, atStop, logCall, atCall, xvars>>
    /\ UNCHANGED <<m_running, m_consistencyCheckRequested, mainpc, wk, rec, con>>

\* performConsistencyCheck()
PerformConsistencyCheck ==
    /\ ~crashed
    /\ budget.checks > 0
    /\ Spend("checks")
    /\ m_consistencyCheckRequested' = TRUE
    /\ UNCHANGED <<qvars, lvars, evars, taskCtr, smMetric, ptCount, txTask, exhausted, lastCall, atStop, logCall, atCall, xvars>>
    /\ UNCHANGED <<m_running, mainpc, api, wk, rec, con>>

(***************************************************************************)
(* The environment: the clock and the source tree.                         *)
(***************************************************************************)
Tick ==
    /\ ~crashed
    /\ budget.ticks > 0
    /\ Spend("ticks")
    /\ now' = now + GraceMinutes
    /\ UNCHANGED <<qvars, lvars, tvars, srcTree, dstTree, relock, crashed>>
    /\ UNCHANGED <<taskCtr, smMetric, ptCount, txTask, exhausted, lastCall, atStop, logCall, atCall, xvars>>

\* the current log file is removed from the log directory; m_logStream keeps
\* writing to the file it has open
RemoveLogFile ==
    /\ ~crashed
    /\ budget.unlink > 0
    /\ Spend("unlink")
    /\ logExists
    /\ logExists' = FALSE
    /\ UNCHANGED <<qvars, logFile, logTail, archive, m_isOpen, m_transactionCache, m_nextId,
                   logMutex>>
    /\ UNCHANGED <<tvars, evars, taskCtr, smMetric, ptCount, txTask, exhausted, lastCall, atStop, logCall, atCall, xvars>>

\* a source file is removed
DeleteSource(path) ==
    /\ ~crashed
    /\ srcTree[path] # Missing
    /\ srcTree' = [srcTree EXCEPT ![path] = Missing]
    /\ UNCHANGED <<qvars, lvars, tvars, dstTree, now, relock, crashed, hvars>>

(***************************************************************************)
(* The engine after its construction.  The log directory may hold the log  *)
(* a process that ended earlier left behind: the lines of one transaction, *)
(* written one grace period ago.                                           *)
(***************************************************************************)
OldLine(n, status) ==
    [TransactionRecord([ms |-> 0, ctr |-> n], "a", 0) EXCEPT !.status = status]
InitialLogs ==
    { << >>,
      <<OldLine(1, PENDING), OldLine(1, IN_PROGRESS), OldLine(1, COMPLETED),
        OldLine(2, PENDING), OldLine(2, IN_PROGRESS)>> }

NoBudget == [enq |-> 0, sync |-> 0, ticks |-> 0, starts |-> 0, stops |-> 0, passes |-> 0, faults |-> 0,
             checks |-> 0, unlink |-> 0, opens |-> 0, closes |-> 0, logs |-> 0, updates |-> 0,
             rotates |-> 0, deq |-> 0, writes |-> 0, hashes |-> 0, valids |-> 0,
             poolStarts |-> 0, poolTasks |-> 0, spurious |-> 0, events |-> 0, gets |-> 0,
             empties |-> 0, callbacks |-> 0, records |-> 0, collects |-> 0, batches |-> 0]
\* one start() and one stop()
OneRun == [NoBudget EXCEPT !.starts = 1, !.stops = 1]

\* the runs of the engine that are explored: syncFile calls with the recovery
\* worker at work; the same after the log file was removed; consistency checks;
\* repeated start() and stop() calls
Scenarios ==
    { [OneRun EXCEPT !.sync = MaxSync, !.ticks = MaxTicks, !.passes = MaxPasses,
                     !.faults = MaxFaults],
      [NoBudget EXCEPT !.starts = 1, !.sync = MaxSync, !.ticks = MaxTicks, !.passes = 1,
                       !.unlink = MaxUnlink],
      [OneRun EXCEPT !.checks = MaxChecks],
      [NoBudget EXCEPT !.starts = MaxCalls, !.stops = MaxCalls, !.sync = MaxSync] }

\* no call has been made on the log
NoLogCall == [op |-> "none", id |-> NoId, status |-> "", size |-> 0, out |-> "ok", res |-> FALSE]

\* ---------------------------------------------------------------------------
\* ThreadPool

\* the threads a pool can hold, and the threads that call enqueue
MaxPoolWorkers == 2
PoolWorkers == 1..MaxPoolWorkers
PoolClients == {"c1", "c2"}

\* a slot of m_workers that start() has not filled
NoPoolWorker == [pc |-> "none", task |-> 0]

\* ThreadPool::ThreadPool. A task is named by its rank among the tasks pushed;
\* pushed[k] is the thread that pushed task k.
NoPool == [m_workers |-> [w \in PoolWorkers |-> NoPoolWorker],
           m_tasks |-> << >>,
           m_stop |-> FALSE,
           pushed |-> << >>,
           taken |-> << >>,
           ran |-> << >>,
           asked |-> 0]

\* the threads of m_workers
Started(p) == {w \in PoolWorkers : p.m_workers[w].pc # "none"}

\* m_tasks.pop() that removes nothing
PopNothing(q) == q

\* m_tasks.pop()
PopFront(q) == Tail(q)

\* m_condition.notify_one(): one of the threads that wait, if there is one
PoolNotifyOne(workers) ==
    LET asleep == {w \in PoolWorkers : workers[w].pc = "wait"}
    IN IF asleep = {} THEN {workers}
       ELSE {[workers EXCEPT ![w].pc = "lock"] : w \in asleep}

\* start(count): count more threads in m_workers, each at the top
\* of its loop
PoolStart(p, count) ==
    LET n == Cardinality(Started(p))
    IN [p EXCEPT !.m_workers = [w \in PoolWorkers |->
                                   IF w \in (n + 1)..(n + count)
                                   THEN [pc |-> "lock", task |-> 0]
                                   ELSE p.m_workers[w]]]

\* ---------------------------------------------------------------------------
\* MockFileSystemMonitor

MonitorThreads == {"m1", "m2"}
\* the arguments of the simulateEvent calls
SimulatedEvents == {[path |-> "/test/path1", action |-> "CREATE", mask |-> 1],
                    [path |-> "/test/path2", action |-> "MODIFY", mask |-> 2]}
EventPaths == {args.path : args \in SimulatedEvents}

\* the std::function that is empty
NoCallback == "empty"

\* a thread that is not in simulateEvent
NoSimulation == [pc |-> "idle", path |-> ""]

\* FSEvent
FSEvent(path, action, timestamp, mask) ==
    [path |-> path, action |-> action, timestamp |-> timestamp, mask |-> mask]

\* FileSystemMonitor::FileSystemMonitor
NoMonitor == [m_callback |-> NoCallback,
              m_event_queue |-> << >>,
              sim |-> [t \in MonitorThreads |-> NoSimulation],
              queued |-> << >>,
              got |-> << >>,
              calls |-> << >>,
              wasEmpty |-> FALSE,
              cbFrom |-> 0]

\* getNextEvent found no event
NoEvent == FSEvent("", "", -1, -1)

\* m_event_queue.push(event) at the wrong end
PushEventFront(q, event) == <<event>> \o q

\* m_event_queue.push(event)
PushEvent(q, event) == Append(q, event)

\* the components that are not part of the engine, after their construction
InitOthers ==
    /\ waiters = [t \in QueueCallers |-> NoCaller]
    /\ verifier = NoVerifier
    /\ pool = NoPool
    /\ monitor = NoMonitor
    /\ metrics = NoMetrics

\* the queue and the engine after the construction
InitEngine ==
    /\ m_tasks = << >>
    /\ m_shutdown = FALSE
    /\ enqSeq = 0
    /\ deqLog = << >>
    /\ m_transactionCache = EmptyMap
    /\ archive = {}
    /\ logMutex = NoThread
    /\ logCall = NoLogCall
    /\ m_running = FALSE
    /\ m_consistencyCheckRequested = FALSE
    /\ mainpc = "idle"
    /\ api = ApiIdle
    /\ wk = [w \in Workers |-> NoWorker]
    /\ rec = NoRecovery
    /\ con = NoConsistency
    /\ now = GraceMinutes
    /\ crashed = FALSE
    /\ taskCtr = 0
    /\ smMetric = << >>
    /\ ptCount = EmptyMap
    /\ txTask = EmptyMap
    /\ exhausted = {}
    /\ lastCall = [op |-> "none", noop |-> FALSE]
    /\ atStop = {}
    /\ atCall = {}
    /\ InitOthers

\* the same and the environment: every source file has a copy with other content
InitRest ==
    /\ InitEngine
    /\ srcTree = [p \in Paths |-> "v1"]
    /\ dstTree = [p \in Paths |-> "v0"]

\* the log as the constructor of RobustSyncManager leaves it: open, the file in
\* place, every line complete
InitOpenLog ==
    /\ files = NoFiles
    /\ m_isOpen = TRUE
    /\ m_nextId = 1
    /\ logExists = TRUE
    /\ logTail = "newline"

InitCommon == InitRest /\ InitOpenLog

Init ==
    /\ InitCommon
    /\ m_maxSize = DefaultMaxSize
    /\ logFile \in InitialLogs
    /\ relock \in {"deadlock", "throw"}
    /\ budget \in Scenarios

Next ==
    \/ \E w \in Workers : WorkerLoop(w)
    \/ \E w \in Workers : WorkerDequeue(w)
    \/ \E w \in Workers : WorkerLogTransaction(w)
    \/ \E w \in Workers : WorkerInProgress(w)
    \/ \E w \in Workers : WorkerCopy(w)
    \/ \E w \in Workers : WorkerVerify(w)
    \/ \E w \in Workers : WorkerFinal(w)
    \/ \E w \in Workers : WorkerRetry(w)
    \/ RecoveryWake
    \/ RecoveryGetInProgress
    \/ RecoveryGetPending
    \/ RecoveryIterate
    \/ ConsistencyWake
    \/ ConsistencyStart
    \/ ConsistencyEnqueue
    \/ Start
    \/ StopCall
    \/ StopShutdown
    \/ StopJoin
    \/ \E p \in Paths : SyncFileCall(p, NORMAL)
    \/ SyncFileEnqueue
    \/ PerformConsistencyCheck
    \/ Tick
    \/ \E p \in Paths : DeleteSource(p)
    \/ RemoveLogFile

Spec == Init /\ [][Next]_vars

(***************************************************************************)
(* The queue alone, called by producers and consumers.                     *)
(***************************************************************************)
\* a producer's enqueue call; api keeps what the call returned
Enqueue(p) ==
    /\ budget.enq > 0
    /\ Spend("enq")
    /\ \/ /\ QueuePush(SyncTask("a", "SYNC", p, 0))
          /\ api' = [ApiIdle EXCEPT !.pc = "returned", !.res = TRUE]
       \/ /\ QueueReject
          /\ api' = [ApiIdle EXCEPT !.pc = "returned", !.res = FALSE]
    /\ UNCHANGED <<lvars, evars, taskCtr, smMetric, ptCount, txTask, exhausted, lastCall, atStop, logCall, atCall, xvars>>
    /\ UNCHANGED <<m_running, m_consistencyCheckRequested, mainpc, wk, rec, con>>

Dequeue ==
    /\ QueuePop \/ QueueNone
    /\ UNCHANGED <<lvars, tvars, evars, hvars>>

Shutdown ==
    /\ QueueShutdown
    /\ UNCHANGED <<lvars, tvars, evars, hvars>>

InitQueue ==
    /\ InitCommon
    /\ m_maxSize = QueueCap
    /\ logFile = << >>
    /\ relock = "deadlock"
    /\ budget = [NoBudget EXCEPT !.enq = MaxEnq]

NextQueue ==
    \/ \E p \in SyncPriority : Enqueue(p)
    \/ Dequeue
    \/ Shutdown

SpecQueue == InitQueue /\ [][NextQueue]_vars

(***************************************************************************)
(* Claims about PrioritySyncQueue, checked under SpecQueue.                *)
(***************************************************************************)
\* the task the last dequeue returned
LastDequeued == deqLog[Len(deqLog)]

\* C1: at every dequeue, the task returned has the least priority ordinal of all
\* the tasks that are in the queue at that moment (so no NORMAL task leaves while
\* a HIGH one is queued, and no LOW one while a NORMAL or higher one is queued).
C1_DequeueMinimalOrdinal ==
    [][Len(deqLog') = Len(deqLog) + 1 =>
          \A i \in DOMAIN m_tasks : deqLog'[Len(deqLog')].prio <= m_tasks[i].prio]_vars

\* C1 witness: a NORMAL task has been dequeued while LOW tasks queued before it
\* are still waiting
C1_Witness ==
    /\ deqLog # << >>
    /\ LastDequeued.prio = NORMAL
    /\ \E i \in DOMAIN m_tasks :
          m_tasks[i].prio = LOW /\ m_tasks[i].seq < LastDequeued.seq

\* C2: without shutdown, a task enqueued before another one of the same or a
\* lower priority is dequeued before it; tasks of equal priority leave in their
\* enqueue order.
C2_EnqueueOrderKept ==
    ~m_shutdown =>
        \A j \in DOMAIN deqLog :
            /\ \A i \in DOMAIN m_tasks :
                  ~(m_tasks[i].seq < deqLog[j].seq /\ m_tasks[i].prio <= deqLog[j].prio)
            /\ \A k \in DOMAIN deqLog :
                  (deqLog[k].seq < deqLog[j].seq /\ deqLog[k].prio <= deqLog[j].prio)
                      => k < j

\* C3: the queue never holds more than m_maxSize tasks.
C3_SizeBounded == Len(m_tasks) <= m_maxSize

\* C3 witness: the queue is full and an enqueue on the full queue has been refused
C3_Witness ==
    /\ ~m_shutdown
    /\ Len(m_tasks) = m_maxSize
    /\ enqSeq + budget.enq < MaxEnq

(***************************************************************************)
(* Claims about the engine, checked under Spec.                            *)
(***************************************************************************)
\* the transactions that processTask created for the task id tid
TxOf(tid) == {id \in DOMAIN txTask : txTask[id] = tid}

\* the transactions that have a line with this status in the log
TxWithLine(status) == {logFile[i].id : i \in {j \in DOMAIN logFile : logFile[j].status = status}}

\* C4: over the chain of a task and its retries processTask is invoked at most
\* MAX_RETRIES + 1 = 4 times; no queued task has a retry count above 3; a task
\* that fails with retry count 3 is not queued again, and its chain has exactly
\* 4 invocations, 4 FAILED transactions and no COMPLETED one.
C4_RetryBounded ==
    /\ \A tid \in DOMAIN ptCount : ptCount[tid] <= MAX_RETRIES + 1
    /\ \A i \in DOMAIN m_tasks : m_tasks[i].retry <= MAX_RETRIES
    /\ \A tid \in exhausted :
          /\ ptCount[tid] = MAX_RETRIES + 1
          /\ \A i \in DOMAIN m_tasks : m_tasks[i].tid # tid
          /\ \A w \in Workers : wk[w].pc = "pt_retry" => wk[w].task.tid # tid
          /\ Cardinality(TxOf(tid) \cap TxWithLine(FAILED)) = MAX_RETRIES + 1
          /\ TxOf(tid) \cap TxWithLine(COMPLETED) = {}

\* C4 witness: a task has failed with retry count 3
C4_Witness == \E tid \in exhausted : ptCount[tid] = MAX_RETRIES + 1

\* C5: once a COMPLETED line is in the log for a transaction id, every later
\* line of that id is a COMPLETED line.
C5_CompletedIsFinal ==
    \A i, j \in DOMAIN logFile :
        (i < j /\ logFile[i].id = logFile[j].id /\ logFile[i].status = COMPLETED)
            => logFile[j].status = COMPLETED

\* the threads of the engine
Threads ==
    {WorkerThread(w) : w \in {v \in DOMAIN wk : wk[v].pc # "none"}}
        \cup (IF rec.pc # "none" THEN {RecThread} ELSE {})
        \cup (IF con.pc # "none" THEN {<<"consistency", 0>>} ELSE {})

\* C7: a start() call on a running engine and a stop() call on a stopped one
\* change neither the threads, nor the queue, nor the log, nor the sync_manager
\* metric; a running engine has num_threads workers, one recovery thread and one
\* consistency thread.
C7_StartStopIdempotent ==
    /\ [](m_running => Cardinality(Threads) = num_threads + 2)
    /\ [][((budget'.starts < budget.starts /\ m_running)
              \/ (budget'.stops < budget.stops /\ ~m_running))
            => UNCHANGED <<qvars, lvars, m_running, wk, rec, con, smMetric>>]_vars

\* C7 witness: of two start() and two stop() calls, one start() found the engine
\* running and the last stop() found it stopped
C7_Witness ==
    /\ budget.starts = 0 /\ budget.stops = 0
    /\ smMetric = <<"started", "stopped">>
    /\ lastCall = [op |-> "stop", noop |-> TRUE]

\* C8: a task that is in the queue when stop() is called is never handed to
\* processTask.
C8_QueuedTasksDropped == \A j \in DOMAIN deqLog : deqLog[j].seq \notin atStop

(***************************************************************************)
(* The engine with its threads scheduled fairly: a thread that can take a  *)
(* step takes it; sleeps and timed waits end.  The calls of the            *)
(* application and the steps of the environment are not forced.            *)
(***************************************************************************)
InitLive ==
    /\ InitCommon
    /\ m_maxSize = DefaultMaxSize
    /\ logFile \in InitialLogs
    /\ relock \in {"deadlock", "throw"}
    /\ budget = [OneRun EXCEPT !.sync = MaxSync, !.ticks = MaxTicks, !.passes = MaxPasses]

WorkerStep(w) ==
    \/ WorkerLoop(w)
    \/ WorkerDequeue(w)
    \/ WorkerLogTransaction(w)
    \/ WorkerInProgress(w)
    \/ WorkerCopy(w)
    \/ WorkerVerify(w)
    \/ WorkerFinal(w)
    \/ WorkerRetry(w)

RecoveryStep ==
    \/ RecoveryWake
    \/ RecoveryGetInProgress
    \/ RecoveryGetPending
    \/ RecoveryIterate

\* in a run with no request the consistency worker leaves its loop when the
\* engine is stopped
ConsistencyStep == ConsistencyWake \/ ConsistencyStart

StopStep == StopShutdown \/ StopJoin

NextLive ==
    \/ \E w \in Workers : WorkerStep(w)
    \/ RecoveryStep
    \/ ConsistencyStep
    \/ StopStep
    \/ Start
    \/ StopCall
    \/ \E p \in Paths : SyncFileCall(p, NORMAL)
    \/ SyncFileEnqueue
    \/ Tick
    \/ \E p \in Paths : DeleteSource(p)

SpecLive ==
    /\ InitLive
    /\ [][NextLive]_vars
    /\ \A w \in Workers : WF_vars(WorkerStep(w))
    /\ WF_vars(RecoveryStep)
    /\ WF_vars(ConsistencyStep)
    /\ WF_vars(StopStep)
    /\ WF_vars(SyncFileEnqueue)

(***************************************************************************)
(* Claims about termination and progress, checked under SpecLive.          *)
(***************************************************************************)
\* every thread of the engine has been joined
AllJoined == Threads = {}

\* C6: a stop() call on a running engine returns, and when it returns the
\* workers, the recovery thread and the consistency thread have ended.
C6_StopReturns == (mainpc = "shutdown") ~> (mainpc = "idle" /\ AllJoined)

\* the log holds a transaction of this run for the path whose last line is COMPLETED
Completed(path) ==
    \E id \in DOMAIN txTask :
        /\ id \in DOMAIN Replay(logFile)
        /\ Replay(logFile)[id].src = path
        /\ Replay(logFile)[id].status = COMPLETED

\* C9: when syncFile(path) has returned true, then, unless the engine is
\* stopped, the source file removed or a copy fails, the log comes to hold a
\* transaction for the path whose last line is COMPLETED, with the destination
\* equal to the source.
C9_HappyPath ==
    \A p \in Paths :
        (api.pc = "idle" /\ api.res /\ api.task.path = p)
            ~> \/ Completed(p) /\ dstTree[p] = srcTree[p]
               \/ ~m_running
               \/ srcTree[p] = Missing

\* the log holds a transaction whose last status is PENDING or IN_PROGRESS, that
\* is as old as the grace period and whose source file exists
Recoverable ==
    \E id \in DOMAIN Replay(logFile) :
        /\ Replay(logFile)[id].status \in {PENDING, IN_PROGRESS}
        /\ ~TooNew(Replay(logFile)[id], now)
        /\ SourceFile(Replay(logFile)[id].src) # Missing

\* a RECOVERY task of HIGH priority went to processTask and a transaction
\* created for it ends in COMPLETED
Recovered ==
    \E j \in DOMAIN deqLog :
        /\ deqLog[j].op = "RECOVERY"
        /\ deqLog[j].prio = HIGH
        /\ \E id \in TxOf(deqLog[j].tid) :
              id \in DOMAIN Replay(logFile) /\ Replay(logFile)[id].status = COMPLETED

\* C10: when the log holds such a transaction and the engine runs, then, unless
\* the engine is stopped or a source file removed, a RECOVERY task is queued at
\* HIGH priority and a new transaction created for it ends in COMPLETED.
C10_CrashRecovery ==
    (m_running /\ Recoverable)
        ~> (Recovered \/ ~m_running \/ \E p \in Paths : srcTree[p] = Missing)

(***************************************************************************)
(* Claims about syncFile and enqueue.                                      *)
(***************************************************************************)
\* C11: a syncFile call that reaches enqueue while the engine runs and the
\* queue has room returns true and records file_queued.
C11_RunningEngineAccepts ==
    [][(api.pc = "enqueue" /\ api'.pc = "idle" /\ m_running /\ Len(m_tasks) < m_maxSize)
          => (api'.res /\ api'.metric = "file_queued")]_vars

\* C20: an enqueue call returns true iff it inserted its task; it returns false
\* exactly when the queue is shut down or is still full when the wait ends, and
\* then the queue is as it was.
C20_EnqueueResult ==
    [][budget'.enq < budget.enq =>
          /\ api'.res <=> (~m_shutdown /\ Len(m_tasks) < m_maxSize)
          /\ api'.res => (Len(m_tasks') = Len(m_tasks) + 1 /\ enqSeq' = enqSeq + 1
                          /\ \E i \in DOMAIN m_tasks' : m_tasks'[i].seq = enqSeq')
          /\ ~api'.res => UNCHANGED qvars]_vars

\* C20 witness: an enqueue call has returned false on a full queue that is not
\* shut down
C20_Witness ==
    /\ api.pc = "returned"
    /\ ~api.res
    /\ ~m_shutdown
    /\ Len(m_tasks) = m_maxSize

(***************************************************************************)
(* loadAllTransactions on the files a log directory can hold: lines that   *)
(* parse, lines that do not, ids without a number at their end, a last     *)
(* line without its newline.  The caller is getTransactionsByStatus.       *)
(***************************************************************************)
\* number of lines of a file
MaxLines == 3

\* a record whose id is "tx-0-abc"
BadCtrLine == OldLine(NoCtr, PENDING)

FileLines ==
    {OldLine(1, PENDING), OldLine(1, COMPLETED), OldLine(2, IN_PROGRESS), Garbage, BadCtrLine}

Files == UNION {[1..n -> FileLines] : n \in 0..MaxLines}

InitReplay ==
    /\ InitRest
    /\ files = NoFiles
    /\ m_maxSize = DefaultMaxSize
    /\ logFile \in Files
    /\ logTail \in (IF logFile = << >> THEN {"newline"} ELSE {"newline", "partial"})
    /\ logExists = TRUE
    /\ m_isOpen \in BOOLEAN
    /\ m_nextId \in {1, 2}
    /\ relock \in {"deadlock", "throw"}
    /\ budget = NoBudget

\* a client calls getTransactionsByStatus(PENDING)
ClientLoad ==
    /\ LogFree
    /\ LET r == GetTransactionsByStatus(LogState, PENDING)
       IN /\ SetLog(r.st)
          /\ logCall' = [NoLogCall EXCEPT !.op = "load", !.out = r.out]
          /\ logMutex' = IF r.out = "relock" /\ relock = "deadlock"
                         THEN <<"client", 0>> ELSE logMutex
    /\ UNCHANGED <<qvars, tvars, evars>>
    /\ UNCHANGED <<taskCtr, budget, smMetric, ptCount, txTask, exhausted, lastCall, atStop, atCall, xvars>>

NextReplay == ClientLoad

SpecReplay == InitReplay /\ [][NextReplay]_vars

\* the lines of the file that parse and carry a numeric counter
WellFormed(line) == Parses(line) /\ line.id.ctr # NoCtr

\* a read loop has just run
Loaded == logCall' # logCall /\ logCall'.op = "load"

\* C15: after loadAllTransactions has read a file of well-formed records,
\* m_nextId is above every counter of the file, and the replay does not lower
\* m_nextId.
C15_NextIdAboveCounters ==
    [][(Loaded /\ \A i \in DOMAIN logFile : WellFormed(logFile[i])) =>
          /\ m_nextId' >= m_nextId
          /\ \A i \in DOMAIN logFile : m_nextId' > logFile[i].id.ctr]_vars

\* C15 witness: a replay of well-formed records has raised m_nextId to 3
C15_Witness ==
    /\ logCall.op = "load"
    /\ logFile # << >>
    /\ \A i \in DOMAIN logFile : WellFormed(logFile[i])
    /\ \E i \in DOMAIN logFile : logFile[i].id.ctr = 2
    /\ m_nextId = 3

\* the lines of the file that end in a newline
CompleteLines(file, tail) ==
    IF tail = "partial" THEN SubSeq(file, 1, Len(file) - 1) ELSE file

\* C19: a replay skips the lines that do not parse and the records whose id has
\* no numeric counter, drops a last line without newline, and goes on: after it
\* the cache holds the last record of every id of the well-formed lines, and the
\* log is open if it was open before.
C19_ReplaySkipsMalformed ==
    [][Loaded =>
          /\ m_transactionCache' = Replay(SelectSeq(CompleteLines(logFile, logTail), WellFormed))
          /\ m_isOpen' = m_isOpen]_vars

(***************************************************************************)
(* A TransactionLog on its own: a client constructs it on a log directory  *)
(* and calls open, close, logTransaction, updateTransactionStatus and      *)
(* rotateLogIfNeeded, while a second thread calls getPendingTransactions.  *)
(* The directory is new, or holds the file an earlier process wrote, its   *)
(* last line with or without the newline.                                  *)
(***************************************************************************)
\* calls of open, close, logTransaction, updateTransactionStatus, rotateLogIfNeeded
MaxOpens == 2
MaxCloses == 1
MaxLogs == 2
MaxUpdates == 2
MaxRotates == 1
\* the sizes rotateLogIfNeeded is called with, in lines
RotateSizes == {3}

ClientThread == <<"client", 0>>
\* an id no file holds
UnknownId == [ms |-> 0, ctr |-> 9]
\* the statuses updateTransactionStatus is called with
CallStatuses == {PENDING, IN_PROGRESS, COMPLETED}

LogDirs ==
    { << >>, <<OldLine(1, PENDING), OldLine(2, PENDING), OldLine(2, IN_PROGRESS)>> }

LogBudget == [NoBudget EXCEPT !.opens = MaxOpens, !.closes = MaxCloses, !.logs = MaxLogs,
                              !.updates = MaxUpdates, !.rotates = MaxRotates, !.passes = 1]

\* the state after the constructor: m_nextId(1), m_isOpen(false), the newest
\* file of the directory is the current one
InitLog ==
    /\ InitRest
    /\ files = NoFiles
    /\ m_maxSize = DefaultMaxSize
    /\ logFile \in LogDirs
    /\ logExists = (logFile # << >>)
    /\ logTail \in (IF logFile = << >> THEN {"newline"} ELSE {"newline", "partial"})
    /\ m_isOpen = FALSE
    /\ m_nextId = 1
    /\ relock \in {"deadlock", "throw"}
    /\ budget = LogBudget

\* what a client call leaves besides the log: the record of the call, and the
\* mutex if the call locked it twice and blocks
ClientEnds(what, call, r) ==
    /\ budget[what] > 0
    /\ Spend(what)
    /\ SetLog(r.st)
    /\ logCall' = [call EXCEPT !.out = r.out]
    /\ logMutex' = IF r.out = "relock" /\ relock = "deadlock" THEN ClientThread ELSE logMutex
    /\ UNCHANGED <<qvars, tvars, evars>>
    /\ UNCHANGED <<taskCtr, smMetric, ptCount, txTask, exhausted, lastCall, atStop, atCall, xvars>>

ClientOpen ==
    /\ LogFree
    /\ ClientEnds("opens", [NoLogCall EXCEPT !.op = "open", !.res = TRUE],
                  [st |-> Open(LogState), out |-> "ok", res |-> TRUE])

ClientClose ==
    /\ LogFree
    /\ ClientEnds("closes", [NoLogCall EXCEPT !.op = "close"],
                  [st |-> Close(LogState), out |-> "ok", res |-> TRUE])

ClientLogTransaction ==
    /\ LogFree
    /\ LET r == LogTransaction(LogState, "a", now)
       IN ClientEnds("logs", [NoLogCall EXCEPT !.op = "log", !.id = r.res, !.status = PENDING,
                                               !.res = (r.res # NoId)], r)

ClientUpdate(id, status) ==
    /\ LogFree
    /\ LET r == UpdateTransactionStatus(LogState, id, status, "", now)
       IN ClientEnds("updates", [NoLogCall EXCEPT !.op = "update", !.id = id,
                                                  !.status = status, !.res = r.res], r)

ClientRotate(maxSize) ==
    /\ LogFree
    /\ LET r == RotateLogIfNeeded(LogState, maxSize)
       IN ClientEnds("rotates", [NoLogCall EXCEPT !.op = "rotate", !.size = maxSize,
                                                  !.res = r.res], r)

\* the second thread calls getPendingTransactions
ReaderCall ==
    /\ rec.pc \in {"none", "sleep"}
    /\ budget.passes > 0
    /\ Spend("passes")
    /\ rec' = [NoRecovery EXCEPT !.pc = "get1"]
    /\ UNCHANGED <<qvars, lvars, evars>>
    /\ UNCHANGED <<taskCtr, smMetric, ptCount, txTask, exhausted, lastCall, atStop, logCall, atCall, xvars>>
    /\ UNCHANGED <<m_running, m_consistencyCheckRequested, mainpc, api, wk, con>>

\* the ids a client can name: those of the files of the directory, and one more
CallIds == {logFile[i].id : i \in DOMAIN logFile}
               \cup UNION {{f[i].id : i \in DOMAIN f} : f \in archive}
               \cup {UnknownId}

NextLog ==
    \/ ClientOpen
    \/ ClientClose
    \/ ClientLogTransaction
    \/ \E id \in CallIds, status \in CallStatuses : ClientUpdate(id, status)
    \/ \E maxSize \in RotateSizes : ClientRotate(maxSize)
    \/ ReaderCall
    \/ RecoveryGetInProgress
    \/ RecoveryGetPending

SpecLog == InitLog /\ [][NextLog]_vars

\* this step is a call that spends the budget named
Called(what) == budget'[what] < budget[what]

\* the call returned to its caller
Returned == logCall'.out = "ok"

\* getPendingTransactions returns: its second scan has run
ReaderReturns == rec.pc = "get2" /\ rec'.pc = "iter"

\* the file holds this id, and every line of it carries PENDING or IN_PROGRESS
NeverFinal(file, id) ==
    /\ \E i \in DOMAIN file : file[i].id = id
    /\ \A i \in DOMAIN file : file[i].id = id => file[i].status \in {PENDING, IN_PROGRESS}

\* C12: the result of getPendingTransactions holds no id twice, and holds
\* every id whose status on disk was PENDING or
\* IN_PROGRESS when the call began and that is in the current file without a
\* line of final status when the call returns.
C12_PendingScanExact ==
    [][ReaderReturns =>
          LET list == rec'.list IN
          /\ \A i, j \in DOMAIN list : i # j => list[i].id # list[j].id
          /\ \A id \in atCall :
                NeverFinal(logFile', id) => \E i \in DOMAIN list : list[i].id = id]_vars

\* C13: a logTransaction or updateTransactionStatus call that returns success
\* has added one line at the end of the file, a line of its id that ends in a
\* newline, has left the earlier lines as they were, and the cache entry of the
\* id is that line.
C13_AppendOnly ==
    [][((Called("logs") \/ Called("updates")) /\ Returned /\ logCall'.res) =>
          /\ Len(logFile') = Len(logFile) + 1
          /\ SubSeq(logFile', 1, Len(logFile)) = logFile
          /\ logTail' = "newline"
          /\ logFile'[Len(logFile')].id = logCall'.id
          /\ m_transactionCache'[logCall'.id] = logFile'[Len(logFile')]]_vars

\* line i is the first line of its id
FirstLine(file, i) == \A j \in 1..(i - 1) : file[j].id # file[i].id

\* C14: in the current file the counters of the ids grow strictly in the order
\* in which the ids first appear.
C14_CountersIncrease ==
    \A i, j \in DOMAIN logFile :
        (i < j /\ FirstLine(logFile, i) /\ FirstLine(logFile, j))
            => logFile[i].id.ctr < logFile[j].id.ctr

Final(status) == status \in {COMPLETED, FAILED, ROLLED_BACK}

\* C16: a line added by updateTransactionStatus never follows a final status of
\* its id with another status, and never follows IN_PROGRESS with PENDING.
C16_StatusMonotonic ==
    [][(Called("updates") /\ Len(logFile') > Len(logFile)) =>
          LET old == Replay(logFile)[logCall'.id].status
              new == logFile'[Len(logFile')].status
          IN /\ ~(Final(old) /\ new # old)
             /\ ~(old = IN_PROGRESS /\ new = PENDING)]_vars

\* C17: updateTransactionStatus returns; it returns true for an id of the
\* current file; for any other id it returns false, adds no line and leaves the
\* cached records of the other ids as they were.
C17_UpdateUnknownId ==
    [][Called("updates") =>
          LET id == logCall'.id
              inFile == logExists /\ \E i \in DOMAIN logFile : logFile[i].id = id
          IN /\ Returned
             /\ inFile => logCall'.res
             /\ ~inFile =>
                   /\ ~logCall'.res
                   /\ logFile' = logFile
                   /\ \A other \in DOMAIN m_transactionCache \ {id} :
                         /\ other \in DOMAIN m_transactionCache'
                         /\ m_transactionCache'[other] = m_transactionCache[other]]_vars

\* C18: rotateLogIfNeeded leaves the file, the cache and the open state alone
\* when the file is not larger than max_bytes; when it is larger the file goes
\* to archive/, the current file is a new empty one, the cache is empty, and
\* the call returns true with the log open.
C18_Rotation ==
    [][Called("rotates") =>
          IF logExists /\ Len(logFile) > logCall'.size
          THEN /\ archive' = archive \cup {logFile}
               /\ logFile' = << >>
               /\ m_transactionCache' = EmptyMap
               /\ Returned
               /\ logCall'.res
               /\ m_isOpen'
          ELSE UNCHANGED <<logFile, logExists, m_transactionCache, m_isOpen>>]_vars

(***************************************************************************)
(* A PrioritySyncQueue with callers that block.  wait_for(lock, timeout,   *)
(* pred) returns at once when pred holds; otherwise the thread sleeps on   *)
(* the condition variable until it is notified or its timeout expires, and *)
(* evaluates pred again under the mutex.                                   *)
(***************************************************************************)
\* timeouts that expire, enqueue calls, dequeue calls, capacity of the queue
MaxTimeouts == 1
MaxCallerEnq == 4
MaxDeq == 3
CallersCap == 2

\* the threads asleep on this condition variable that no notification has reached
Asleep(w, cv) == {t \in DOMAIN w : w[t].pc = cv /\ ~w[t].notified}

\* condition_variable::notify_one: the callers' states it can leave
NotifyOne(w, cv) ==
    IF Asleep(w, cv) = {} THEN {w}
    ELSE {[w EXCEPT ![t].notified = TRUE] : t \in Asleep(w, cv)}

\* shutdown without its notify_all calls
NotifyNobody(w, cv) == w

\* condition_variable::notify_all
NotifyAll(w, cv) == [t \in DOMAIN w |-> IF w[t].pc = cv THEN [w[t] EXCEPT !.notified = TRUE]
                                        ELSE w[t]]

\* the caller's state when its call returns
CallReturns(t, res, how) ==
    [waiters[t] EXCEPT !.pc = "idle", !.notified = FALSE, !.res = res, !.how = how]

\* enqueue after its wait: line 103 to 109
EnqueueReturns(t, how) ==
    \/ /\ QueuePush(waiters[t].task)
       /\ waiters' \in NotifyOne([waiters EXCEPT ![t] = CallReturns(t, "true", how)], "notEmpty")
    \/ /\ QueueReject
       /\ waiters' = [waiters EXCEPT ![t] = CallReturns(t, "false", how)]

\* dequeue after its wait: line 121 to 128
DequeueReturns(t, how) ==
    \/ /\ QueuePop
       /\ waiters' \in NotifyOne([waiters EXCEPT ![t] = CallReturns(t, "task", how)], "notFull")
    \/ /\ QueueNone
       /\ waiters' = [waiters EXCEPT ![t] = CallReturns(t, "nullopt", how)]

\* the rest of the model is not touched by the callers of the queue
CallerFrame ==
    /\ UNCHANGED <<lvars, tvars, evars>>
    /\ UNCHANGED <<taskCtr, smMetric, ptCount, txTask, exhausted, lastCall, logCall, atCall>>
    /\ UNCHANGED <<files, verifier, uvars>>

\* a thread calls enqueue
EnqueueCall(t, p) ==
    /\ waiters[t].pc = "idle"
    /\ budget.enq > 0
    /\ Spend("enq")
    /\ LET call == [NoCaller EXCEPT !.op = "enqueue", !.task = SyncTask("a", "SYNC", p, 0),
                                    !.n = waiters[t].n + 1]
       IN IF HasRoom
          THEN \/ /\ QueuePush(call.task)
                  /\ waiters' \in NotifyOne([waiters EXCEPT ![t] = [call EXCEPT !.res = "true",
                                                                               !.how = "at once"]],
                                           "notEmpty")
               \/ /\ QueueReject
                  /\ waiters' = [waiters EXCEPT ![t] = [call EXCEPT !.res = "false",
                                                                    !.how = "at once"]]
          ELSE /\ waiters' = [waiters EXCEPT ![t] = [call EXCEPT !.pc = "notFull"]]
               /\ UNCHANGED qvars
    /\ UNCHANGED atStop
    /\ CallerFrame

\* a thread calls dequeue
DequeueCall(t) ==
    /\ waiters[t].pc = "idle"
    /\ budget.deq > 0
    /\ Spend("deq")
    /\ LET call == [NoCaller EXCEPT !.op = "dequeue", !.n = waiters[t].n + 1]
       IN IF HasTask
          THEN \/ /\ QueuePop
                  /\ waiters' \in NotifyOne([waiters EXCEPT ![t] = [call EXCEPT !.res = "task",
                                                                               !.how = "at once"]],
                                           "notFull")
               \/ /\ QueueNone
                  /\ waiters' = [waiters EXCEPT ![t] = [call EXCEPT !.res = "nullopt",
                                                                    !.how = "at once"]]
          ELSE /\ waiters' = [waiters EXCEPT ![t] = [call EXCEPT !.pc = "notEmpty"]]
               /\ UNCHANGED qvars
    /\ UNCHANGED atStop
    /\ CallerFrame

\* a notified thread has the mutex again and evaluates the predicate of its wait
CallerWakes(t) ==
    /\ waiters[t].notified
    /\ \/ /\ waiters[t].pc = "notFull"
          /\ IF HasRoom THEN EnqueueReturns(t, "notified")
             ELSE /\ waiters' = [waiters EXCEPT ![t].notified = FALSE]
                  /\ UNCHANGED qvars
       \/ /\ waiters[t].pc = "notEmpty"
          /\ IF HasTask THEN DequeueReturns(t, "notified")
             ELSE /\ waiters' = [waiters EXCEPT ![t].notified = FALSE]
                  /\ UNCHANGED qvars
    /\ UNCHANGED budget
    /\ UNCHANGED atStop
    /\ CallerFrame

\* the timeout of a sleeping thread expires: wait_for returns the predicate
CallerTimesOut(t) ==
    /\ budget.ticks > 0
    /\ Spend("ticks")
    /\ \/ /\ waiters[t].pc = "notFull"
          /\ EnqueueReturns(t, "timeout")
       \/ /\ waiters[t].pc = "notEmpty"
          /\ DequeueReturns(t, "timeout")
    /\ UNCHANGED atStop
    /\ CallerFrame

\* a thread calls shutdown
ShutdownCall ==
    /\ ~m_shutdown
    /\ QueueShutdown
    /\ waiters' = NotifyAll(NotifyAll(waiters, "notEmpty"), "notFull")
    /\ atStop' = {m_tasks[i].seq : i \in DOMAIN m_tasks}
    /\ UNCHANGED budget
    /\ CallerFrame

InitCallers ==
    /\ InitCommon
    /\ m_maxSize = CallersCap
    /\ logFile = << >>
    /\ relock = "deadlock"
    /\ budget = [NoBudget EXCEPT !.enq = MaxCallerEnq, !.deq = MaxDeq, !.ticks = MaxTimeouts]

NextCallers ==
    \/ \E t \in QueueCallers, p \in {HIGH, LOW} : EnqueueCall(t, p)
    \/ \E t \in QueueCallers : DequeueCall(t)
    \/ \E t \in QueueCallers : CallerWakes(t)
    \/ \E t \in QueueCallers : CallerTimesOut(t)
    \/ ShutdownCall

\* a notified thread gets the mutex in the end; no timeout has to expire
SpecCallers ==
    InitCallers /\ [][NextCallers]_vars /\ \A t \in QueueCallers : WF_vars(CallerWakes(t))

\* the thread sleeps in the wait of enqueue or dequeue
Blocked(c) == c.pc \in {"notFull", "notEmpty"}

\* a call of thread t returns in this step
CallReturned(t) ==
    /\ waiters'[t].pc = "idle"
    /\ waiters[t].pc # "idle" \/ waiters'[t].n # waiters[t].n

\* C21: once the queue is shut down no call blocks, every enqueue returns false
\* and leaves the queue as it is, every dequeue on a queue that holds tasks
\* returns the task of least priority ordinal, and every dequeue on the empty
\* queue returns nullopt.
C21_AfterShutdown ==
    [][m_shutdown =>
          \A t \in QueueCallers :
              /\ Blocked(waiters'[t]) => Blocked(waiters[t])
              /\ (CallReturned(t) /\ waiters'[t].op = "enqueue") =>
                    (waiters'[t].res = "false" /\ m_tasks' = m_tasks)
              /\ (CallReturned(t) /\ waiters'[t].op = "dequeue") =>
                    IF m_tasks = << >>
                    THEN waiters'[t].res = "nullopt" /\ m_tasks' = m_tasks
                    ELSE /\ waiters'[t].res = "task"
                         /\ Len(deqLog') = Len(deqLog) + 1
                         /\ Len(m_tasks') = Len(m_tasks) - 1
                         /\ \A i \in DOMAIN m_tasks :
                               deqLog'[Len(deqLog')].prio <= m_tasks[i].prio]_vars

\* C21 witness: two tasks were queued at the shutdown, both have been dequeued
\* since, a later dequeue returned nullopt and an enqueue returned false, both
\* at once
C21_Witness ==
    /\ m_shutdown
    /\ Cardinality(atStop) = 2
    /\ \A q \in atStop : \E j \in DOMAIN deqLog : deqLog[j].seq = q
    /\ \E t \in QueueCallers :
          waiters[t].op = "dequeue" /\ waiters[t].res = "nullopt" /\ waiters[t].how = "at once"
    /\ \E t \in QueueCallers :
          waiters[t].op = "enqueue" /\ waiters[t].res = "false" /\ waiters[t].how = "at once"

\* C22: a thread that sleeps in enqueue when the queue is shut down returns
\* false, and a thread that sleeps in dequeue on the empty queue returns
\* nullopt, without any timeout having to expire.
C22_ShutdownWakes ==
    \A t \in QueueCallers :
        /\ (m_shutdown /\ waiters[t].pc = "notFull")
              ~> (waiters[t].pc = "idle" /\ waiters[t].res = "false")
        /\ (m_shutdown /\ waiters[t].pc = "notEmpty" /\ m_tasks = << >>)
              ~> (waiters[t].pc = "idle" /\ waiters[t].res = "nullopt")

\* C22 witness: after the shutdown a thread that slept on the full queue has
\* returned false on the notification, the queue still full, no timeout spent
C22_Witness ==
    /\ m_shutdown
    /\ budget.ticks = MaxTimeouts
    /\ Len(m_tasks) = m_maxSize
    /\ \E t \in QueueCallers :
          /\ waiters[t].pc = "idle"
          /\ waiters[t].op = "enqueue"
          /\ waiters[t].res = "false"
          /\ waiters[t].how = "notified"

(***************************************************************************)
(* verifyFile on every pair of small files.                                *)
(***************************************************************************)
\* the bytes of a file, the mtimes
FileContents == {<< >>, <<0>>, <<1>>, <<0, 1>>, <<0, 1, 0>>, <<0, 1, 1>>}
MaxMtime == 2
FileStates ==
    {NoFile} \cup [content : FileContents, readable : BOOLEAN, mtime : {0, MaxMtime}]

\* the rest of the model is not touched by the verifier
VerifierFrame ==
    /\ UNCHANGED <<qvars, lvars, tvars, evars>>
    /\ UNCHANGED <<taskCtr, smMetric, ptCount, txTask, exhausted, lastCall, atStop, logCall, atCall>>
    /\ UNCHANGED <<waiters, uvars>>

InitVerify ==
    /\ InitRest
    /\ m_maxSize = DefaultMaxSize
    /\ logFile = << >>
    /\ logExists = TRUE
    /\ logTail = "newline"
    /\ m_isOpen = TRUE
    /\ m_nextId = 1
    /\ relock = "deadlock"
    /\ budget = NoBudget
    /\ \E fa \in FileStates, fb \in FileStates :
          files = [NoFiles EXCEPT ![sourceDir \o <<"a">>] = fa, ![destDir \o <<"a">>] = fb]

\* a client calls verifyFile on the pair of files named a
VerifyFileCall(method) ==
    /\ verifier' = [verifier EXCEPT !.op = "verifyFile",
                                    !.method = method,
                                    !.path = <<"a">>,
                                    !.result = verifyFile(files, sourceDir \o <<"a">>,
                                                          destDir \o <<"a">>, method)]
    /\ UNCHANGED <<files, budget>>
    /\ VerifierFrame

NextVerify == \E method \in VerifyMethod : VerifyFileCall(method)

SpecVerify == InitVerify /\ [][NextVerify]_vars

\* the two files exist and have the same bytes
SameContent(f, p1, p2) ==
    f[p1] # NoFile /\ f[p2] # NoFile /\ f[p1].content = f[p2].content
\* the two files exist and have the same size
SameSize(f, p1, p2) ==
    f[p1] # NoFile /\ f[p2] # NoFile /\ Len(f[p1].content) = Len(f[p2].content)

\* C23: after verifyFile, errorMessage is empty exactly when matches is true;
\* under SIZE_ONLY matches says that both files exist with equal sizes; under a
\* hash or full-compare method matches is never true for files of different
\* content, readable or not, and is true for readable files of equal content.
C23_VerifyFileExact ==
    LET s == sourceDir \o verifier.path
        d == destDir \o verifier.path
        r == verifier.result
    IN (verifier.op = "verifyFile" /\ verifier.method # TIMESTAMP) =>
          /\ (r.errorMessage = "") <=> r.matches
          /\ verifier.method = SIZE_ONLY => (r.matches <=> SameSize(files, s, d))
          /\ verifier.method # SIZE_ONLY =>
                /\ r.matches => SameContent(files, s, d)
                /\ (SameContent(files, s, d) /\ files[s].readable /\ files[d].readable)
                      => r.matches

(***************************************************************************)
(* verifyDirectory on two trees of up to three files.                      *)
(***************************************************************************)
\* values of maxThreads
MaxThreadsArg == 3
TreeFileStates ==
    {NoFile} \cup [content : {<<0>>, <<1>>}, readable : {TRUE}, mtime : {0}]

InitVerifyDir ==
    /\ InitRest
    /\ m_maxSize = DefaultMaxSize
    /\ logFile = << >>
    /\ logExists = TRUE
    /\ logTail = "newline"
    /\ m_isOpen = TRUE
    /\ m_nextId = 1
    /\ relock = "deadlock"
    /\ budget = NoBudget
    /\ \E t \in [TreePaths -> TreeFileStates] :
          files = [p \in DOMAIN NoFiles |-> IF p \in TreePaths THEN t[p] ELSE Directory]

\* a client calls verifyDirectory(sourceDir, destDir, FAST_HASH, parallel, maxThreads)
VerifyDirectoryCall(parallel, maxThreads) ==
    /\ \E order \in SeqsOf(RelPaths) :
          verifier' = [verifier EXCEPT
                          !.op = "verifyDirectory",
                          !.method = FAST_HASH,
                          !.parallel = parallel,
                          !.maxThreads = maxThreads,
                          !.results = verifyDirectory(files, sourceDir, destDir, FAST_HASH,
                                                      parallel, maxThreads, order)]
    /\ UNCHANGED <<files, budget>>
    /\ VerifierFrame

NextVerifyDir ==
    \E parallel \in BOOLEAN, maxThreads \in 0..MaxThreadsArg :
        VerifyDirectoryCall(parallel, maxThreads)

SpecVerifyDir == InitVerifyDir /\ [][NextVerifyDir]_vars

\* C24: verifyDirectory returns one result keyed by r for every regular file r of
\* the source tree: the 'File missing in destination' result, or the verifyFile
\* result of the pair; one 'Extra file in destination' result for every file of
\* the destination tree alone; and nothing else.
C24_DirectoryResults ==
    verifier.op = "verifyDirectory" =>
        LET res == verifier.results
            inSrc(r) == is_regular_file(files, sourceDir \o r)
            inDst(r) == is_regular_file(files, destDir \o r)
            expected(r) ==
                IF ~inSrc(r) THEN [NoResult EXCEPT !.errorMessage = "Extra file in destination"]
                ELSE IF ~inDst(r)
                THEN [NoResult EXCEPT !.errorMessage = "File missing in destination"]
                ELSE verifyFile(files, sourceDir \o r, destDir \o r, FAST_HASH)
        IN /\ \A r \in RelPaths :
                 (inSrc(r) \/ inDst(r)) =>
                     /\ Cardinality({i \in DOMAIN res : res[i].path = r}) = 1
                     /\ \E i \in DOMAIN res : res[i].path = r /\ res[i].result = expected(r)
           /\ Len(res) = Cardinality({r \in RelPaths : inSrc(r) \/ inDst(r)})

(***************************************************************************)
(* The hash cache of FileVerification and one file that is written,        *)
(* touched and removed while the clock advances.                           *)
(***************************************************************************)
\* clock ticks, changes of the file, cacheHash calls, isCacheValid calls
MaxCacheTicks == 2
MaxWrites == 2
MaxHashes == 1
MaxValids == 2
CachedPath == sourceDir \o <<"a">>

InitCache ==
    /\ InitRest
    /\ m_maxSize = DefaultMaxSize
    /\ logFile = << >>
    /\ logExists = TRUE
    /\ logTail = "newline"
    /\ m_isOpen = TRUE
    /\ m_nextId = 1
    /\ relock = "deadlock"
    /\ budget = [NoBudget EXCEPT !.ticks = MaxCacheTicks, !.writes = MaxWrites,
                                 !.hashes = MaxHashes, !.valids = MaxValids]
    /\ files = [NoFiles EXCEPT ![CachedPath] = [content |-> <<0>>, readable |-> TRUE, mtime |-> 0]]

CacheFrame ==
    /\ UNCHANGED <<qvars, lvars, tvars>>
    /\ UNCHANGED <<srcTree, dstTree, relock, crashed>>
    /\ UNCHANGED <<taskCtr, smMetric, ptCount, txTask, exhausted, lastCall, atStop, logCall, atCall>>
    /\ UNCHANGED <<waiters, uvars>>

\* the clock advances
CacheTick ==
    /\ budget.ticks > 0
    /\ Spend("ticks")
    /\ now' = now + 1
    /\ UNCHANGED <<files, verifier>>
    /\ CacheFrame

\* the file is written: new bytes, mtime is the time of the write
WriteFile(content) ==
    /\ budget.writes > 0
    /\ Spend("writes")
    /\ files' = [files EXCEPT ![CachedPath] = [content |-> content, readable |-> TRUE,
                                               mtime |-> now]]
    /\ UNCHANGED <<now, verifier>>
    /\ CacheFrame

\* the file is replaced by one that carries an mtime of its own (utimes, cp -p)
RestoreFile(content, mtime) ==
    /\ budget.writes > 0
    /\ Spend("writes")
    /\ files' = [files EXCEPT ![CachedPath] = [content |-> content, readable |-> TRUE,
                                               mtime |-> mtime]]
    /\ UNCHANGED <<now, verifier>>
    /\ CacheFrame

\* the file is removed
RemoveFile ==
    /\ budget.writes > 0
    /\ Spend("writes")
    /\ files[CachedPath] # NoFile
    /\ files' = [files EXCEPT ![CachedPath] = NoFile]
    /\ UNCHANGED <<now, verifier>>
    /\ CacheFrame

\* cacheHash(path, calculateMD5(path))
CacheHashCall ==
    /\ budget.hashes > 0
    /\ Spend("hashes")
    /\ files[CachedPath] # NoFile
    /\ verifier' = [verifier EXCEPT
                       !.op = "cacheHash",
                       !.path = CachedPath,
                       !.m_hashCache = cacheHash(@, files, CachedPath,
                                                 calculateMD5(files, CachedPath), now)]
    /\ UNCHANGED <<now, files>>
    /\ CacheFrame

\* isCacheValid(path, cachedHash)
IsCacheValidCall ==
    /\ budget.valids > 0
    /\ Spend("valids")
    /\ LET r == isCacheValid(verifier.m_hashCache, files, CachedPath)
       IN verifier' = [verifier EXCEPT !.op = "isCacheValid",
                                       !.path = CachedPath,
                                       !.valid = r.valid,
                                       !.result = [NoResult EXCEPT !.sourceHash = r.cachedHash]]
    /\ UNCHANGED <<now, files>>
    /\ CacheFrame

NextCache ==
    \/ CacheTick
    \/ \E content \in {<<0>>, <<1>>, <<0, 1>>} : WriteFile(content)
    \/ \E content \in {<<0>>, <<1>>}, mtime \in 0..now : RestoreFile(content, mtime)
    \/ RemoveFile
    \/ CacheHashCall
    \/ IsCacheValidCall

SpecCache == InitCache /\ [][NextCache]_vars

\* C25: isCacheValid yields the cached hash exactly when the path has an entry
\* and the file has the size and the mtime it had when the entry was made.
C25_CacheValidity ==
    [][Called("valids") =>
          LET cache == verifier.m_hashCache
              unchangedSince ==
                  /\ CachedPath \in DOMAIN cache
                  /\ files[CachedPath] # NoFile
                  /\ Len(files[CachedPath].content) = cache[CachedPath].fileSize
                  /\ files[CachedPath].mtime = cache[CachedPath].mtimeThen
          IN /\ verifier'.valid <=> unchangedSince
             /\ verifier'.valid => verifier'.result.sourceHash = cache[CachedPath].hash]_vars

\* ---------------------------------------------------------------------------
\* ThreadPool, MockFileSystemMonitor and MetricsCollector, each used by
\* several threads

\* the rest of the model is not touched by these three
UtilFrame ==
    /\ UNCHANGED <<qvars, lvars, tvars, evars>>
    /\ UNCHANGED <<taskCtr, smMetric, ptCount, txTask, exhausted, lastCall, atStop, logCall, atCall>>
    /\ UNCHANGED <<waiters, files, verifier>>

InitUtil ==
    /\ InitCommon
    /\ m_maxSize = DefaultMaxSize
    /\ logFile = << >>
    /\ relock = "deadlock"

\* the calls of start(), the tasks pushed, the spurious wake-ups of
\* m_condition.wait
MaxPoolStarts == 2
MaxPoolTasks == 3
MaxSpurious == 1

InitPool ==
    /\ InitUtil
    /\ budget = [NoBudget EXCEPT !.poolStarts = MaxPoolStarts, !.poolTasks = MaxPoolTasks,
                                 !.spurious = MaxSpurious]

\* ThreadPool::start(count)
PoolStartCall(count) ==
    /\ budget.poolStarts > 0
    /\ Cardinality(Started(pool)) + count <= MaxPoolWorkers
    /\ Spend("poolStarts")
    /\ pool' = [PoolStart(pool, count) EXCEPT !.asked = @ + count]
    /\ UNCHANGED <<monitor, metrics>>
    /\ UtilFrame

\* ThreadPool::enqueue, called by the thread c: push and notify_one with the
\* mutex held
PoolEnqueue(c) ==
    /\ budget.poolTasks > 0
    /\ Spend("poolTasks")
    /\ \E workers \in PoolNotifyOne(pool.m_workers) :
          pool' = [pool EXCEPT !.m_tasks = Append(@, Len(pool.pushed) + 1),
                               !.pushed = Append(@, c),
                               !.m_workers = workers]
    /\ UNCHANGED <<monitor, metrics>>
    /\ UtilFrame

\* a worker gets the mutex at the top of its loop or after a wake-up: it
\* tests the predicate of the wait, and sleeps, returns or takes the front task
PoolWorkerLocks(w) ==
    /\ pool.m_workers[w].pc = "lock"
    /\ pool' =
          IF ~(pool.m_stop \/ pool.m_tasks # << >>)
          THEN [pool EXCEPT !.m_workers[w].pc = "wait"]
          ELSE IF pool.m_stop /\ pool.m_tasks = << >>
          THEN [pool EXCEPT !.m_workers[w].pc = "returned"]
          ELSE [pool EXCEPT !.m_workers[w] = [pc |-> "run", task |-> Head(pool.m_tasks)],
                            !.m_tasks = PopFront(@),
                            !.taken = Append(@, [task |-> Head(pool.m_tasks), by |-> w])]
    /\ UNCHANGED <<budget, monitor, metrics>>
    /\ UtilFrame

\* m_condition.wait returns without a notification
PoolSpuriousWake(w) ==
    /\ pool.m_workers[w].pc = "wait"
    /\ budget.spurious > 0
    /\ Spend("spurious")
    /\ pool' = [pool EXCEPT !.m_workers[w].pc = "lock"]
    /\ UNCHANGED <<monitor, metrics>>
    /\ UtilFrame

\* task() returns; the worker goes back to the top of its loop
PoolWorkerRuns(w) ==
    /\ pool.m_workers[w].pc = "run"
    /\ pool' = [pool EXCEPT !.ran = Append(@, [task |-> pool.m_workers[w].task, by |-> w]),
                            !.m_workers[w] = [pc |-> "lock", task |-> 0]]
    /\ UNCHANGED <<budget, monitor, metrics>>
    /\ UtilFrame

NextPool ==
    \/ \E count \in 0..MaxPoolWorkers : PoolStartCall(count)
    \/ \E c \in PoolClients : PoolEnqueue(c)
    \/ \E w \in PoolWorkers : PoolWorkerLocks(w)
    \/ \E w \in PoolWorkers : PoolSpuriousWake(w)
    \/ \E w \in PoolWorkers : PoolWorkerRuns(w)

\* every worker is scheduled, and every task returns
SpecPool ==
    /\ InitPool
    /\ [][NextPool]_vars
    /\ \A w \in PoolWorkers : WF_vars(PoolWorkerLocks(w)) /\ WF_vars(PoolWorkerRuns(w))

\* the tasks that have run, and the threads that ran them
RanTasks == {pool.ran[i].task : i \in DOMAIN pool.ran}
RanBy == {pool.ran[i].by : i \in DOMAIN pool.ran}

\* C26: the tasks are taken in the order they were pushed, each once; a task
\* runs once at most, on a thread of m_workers, of which there are as many as
\* start() was asked for; and once the pool has a worker every pushed task runs.
C26_EveryTaskOnce ==
    /\ [](/\ \A i \in DOMAIN pool.taken : pool.taken[i].task = i
          /\ Len(pool.taken) <= Len(pool.pushed)
          /\ \A i, j \in DOMAIN pool.ran : pool.ran[i].task = pool.ran[j].task => i = j
          /\ \A i \in DOMAIN pool.ran :
                \E j \in DOMAIN pool.taken : pool.taken[j] = pool.ran[i]
          /\ RanBy \subseteq Started(pool)
          /\ Cardinality(Started(pool)) = pool.asked)
    /\ \A k \in 1..MaxPoolTasks :
          (Len(pool.pushed) >= k /\ Started(pool) # {}) ~> (k \in RanTasks)

\* three tasks pushed by two threads have run on two workers
C26_Witness ==
    /\ RanTasks = 1..MaxPoolTasks
    /\ {pool.pushed[k] : k \in DOMAIN pool.pushed} = PoolClients
    /\ RanBy = PoolWorkers

\* ---------------------------------------------------------------------------
\* MockFileSystemMonitor

\* the calls of simulateEvent, getNextEvent, empty and setCallback
MaxEvents == 3
MaxGets == 4
MaxEmpties == 2
MaxSetCallbacks == 1

InitMonitor ==
    /\ InitUtil
    /\ budget = [NoBudget EXCEPT !.events = MaxEvents, !.gets = MaxGets,
                                 !.empties = MaxEmpties, !.callbacks = MaxSetCallbacks]

\* FileSystemMonitor::setCallback, while no thread is in simulateEvent (the
\* member is read there without the mutex)
SetCallback ==
    /\ budget.callbacks > 0
    /\ \A t \in MonitorThreads : monitor.sim[t].pc = "idle"
    /\ Spend("callbacks")
    /\ monitor' = [monitor EXCEPT !.m_callback = "cb",
                                  !.cbFrom = IF monitor.m_callback = NoCallback
                                             THEN Len(monitor.queued) ELSE @]
    /\ UNCHANGED <<pool, metrics>>
    /\ UtilFrame

\* simulateEvent up to the end of the block that holds m_queue_mutex
SimulateEventPush(t, path, action, mask) ==
    /\ budget.events > 0
    /\ monitor.sim[t].pc = "idle"
    /\ Spend("events")
    /\ LET event == FSEvent(path, action, now, mask)
       IN monitor' = [monitor EXCEPT !.m_event_queue = PushEvent(@, event),
                                     !.queued = Append(@, event),
                                     !.sim[t] = [pc |-> "callback", path |-> path]]
    /\ UNCHANGED <<pool, metrics>>
    /\ UtilFrame

\* the rest of simulateEvent: the callback, if one is set, called without the mutex
SimulateEventCallback(t) ==
    /\ monitor.sim[t].pc = "callback"
    /\ monitor' = [monitor EXCEPT
                      !.calls = IF monitor.m_callback # NoCallback
                                THEN Append(@, [path |-> monitor.sim[t].path, by |-> t])
                                ELSE @,
                      !.sim[t] = NoSimulation]
    /\ UNCHANGED <<budget, pool, metrics>>
    /\ UtilFrame

\* getNextEvent
GetNextEvent ==
    /\ budget.gets > 0
    /\ Spend("gets")
    /\ monitor' = IF monitor.m_event_queue = << >>
                  THEN [monitor EXCEPT !.got = Append(@, NoEvent)]
                  ELSE [monitor EXCEPT !.got = Append(@, Head(monitor.m_event_queue)),
                                       !.m_event_queue = Tail(@)]
    /\ UNCHANGED <<pool, metrics>>
    /\ UtilFrame

\* empty
EmptyCall ==
    /\ budget.empties > 0
    /\ Spend("empties")
    /\ monitor' = [monitor EXCEPT !.wasEmpty = (monitor.m_event_queue = << >>)]
    /\ UNCHANGED <<pool, metrics>>
    /\ UtilFrame

NextMonitor ==
    \/ SetCallback
    \/ \E t \in MonitorThreads, args \in SimulatedEvents :
          SimulateEventPush(t, args.path, args.action, args.mask)
    \/ \E t \in MonitorThreads : SimulateEventCallback(t)
    \/ GetNextEvent
    \/ EmptyCall

SpecMonitor == InitMonitor /\ [][NextMonitor]_vars

\* the events getNextEvent has returned, in order
Delivered == SelectSeq(monitor.got, LAMBDA event : event # NoEvent)

\* how many of the indices of a sequence hold something of this path
PathCount(seq, from, path) ==
    Cardinality({i \in DOMAIN seq : i > from /\ seq[i].path = path})

\* C27: getNextEvent returns the events in the order simulateEvent queued
\* them, each once and as it was queued, and nullopt exactly when none is
\* left; empty() is true exactly when every queued event has been retrieved;
\* the callback has been called once, with its path, for each simulateEvent
\* made since one was set, but for the calls that have not reached it yet.
C27_EventsInOrder ==
    /\ [](/\ Delivered = SubSeq(monitor.queued, 1, Len(Delivered))
          /\ monitor.m_event_queue =
                SubSeq(monitor.queued, Len(Delivered) + 1, Len(monitor.queued))
          /\ \A path \in EventPaths :
                PathCount(monitor.calls, 0, path)
                + Cardinality({t \in MonitorThreads : /\ monitor.sim[t].pc = "callback"
                                                      /\ monitor.sim[t].path = path
                                                      /\ monitor.m_callback # NoCallback})
                = IF monitor.m_callback = NoCallback THEN 0
                  ELSE PathCount(monitor.queued, monitor.cbFrom, path))
    /\ [][/\ Called("gets") =>
                ((monitor'.got[Len(monitor'.got)] = NoEvent)
                    <=> (Len(Delivered) = Len(monitor.queued)))
          /\ Called("empties") =>
                (monitor'.wasEmpty <=> (Len(Delivered) = Len(monitor.queued)))]_vars

\* three events of two threads, one of them queued while the other thread was
\* still in simulateEvent, were all retrieved; the next getNextEvent returned
\* nullopt and empty() true; the callback was called three times
C27_Witness ==
    /\ Len(monitor.queued) = MaxEvents
    /\ Delivered = monitor.queued
    /\ monitor.got[Len(monitor.got)] = NoEvent
    /\ monitor.wasEmpty
    /\ Len(monitor.calls) = MaxEvents
    /\ monitor.calls[1].path # monitor.queued[1].path
    /\ {monitor.calls[i].by : i \in DOMAIN monitor.calls} = MonitorThreads

\* ---------------------------------------------------------------------------
\* MetricsCollector

\* the calls of recordMetric and collect
MaxRecords == 3
MaxCollects == 2

InitMetrics ==
    /\ InitUtil
    /\ budget = [NoBudget EXCEPT !.records = MaxRecords, !.collects = MaxCollects]

\* recordMetric, called by the thread t
RecordMetric(t, name, value) ==
    /\ budget.records > 0
    /\ Spend("records")
    /\ metrics' = recordMetric(metrics, name, value, now, t)
    /\ UNCHANGED <<pool, monitor>>
    /\ UtilFrame

\* collect
Collect ==
    /\ budget.collects > 0
    /\ Spend("collects")
    /\ metrics' = [metrics EXCEPT !.out = @ \o MetricLines(metrics.m_metrics),
                                  !.collects = Append(@, MetricLines(metrics.m_metrics)),
                                  !.m_metrics = ClearMetrics(@)]
    /\ UNCHANGED <<pool, monitor>>
    /\ UtilFrame

NextMetrics ==
    \/ \E t \in MetricThreads, name \in MetricNames, value \in MetricValues :
          RecordMetric(t, name, value)
    \/ Collect

SpecMetrics == InitMetrics /\ [][NextMetrics]_vars

\* the recordMetric calls numbered from + 1 to to, as lines
RecordedLines(from, to) ==
    [i \in 1..(to - from) |-> metrics.recorded[from + i].name \o ": "
                              \o metrics.recorded[from + i].value]

\* C28: collect writes the metrics recorded since the collect before it, each
\* once and in the order of the recordMetric calls, and leaves none behind; so
\* all that was recorded has been written once or is still to be collected.
C28_CollectOnce ==
    /\ [](/\ metrics.out \o MetricLines(metrics.m_metrics)
                = RecordedLines(0, Len(metrics.recorded))
          /\ \A i \in DOMAIN metrics.m_metrics :
                /\ metrics.m_metrics[i].name
                      = metrics.recorded[Len(metrics.out) + i].name
                /\ metrics.m_metrics[i].value
                      = metrics.recorded[Len(metrics.out) + i].value)
    /\ [][Called("collects") =>
             /\ metrics'.collects[Len(metrics'.collects)]
                   = RecordedLines(Len(metrics.out), Len(metrics.recorded))
             /\ metrics'.out = metrics.out \o metrics'.collects[Len(metrics'.collects)]
             /\ metrics'.m_metrics = << >>]_vars

\* metrics of two threads were collected, and the collect that followed wrote
\* nothing
C28_Witness ==
    /\ Len(metrics.collects) = 2
    /\ Len(metrics.collects[1]) = MaxRecords
    /\ metrics.collects[2] = << >>
    /\ {metrics.recorded[i].by : i \in DOMAIN metrics.recorded} = MetricThreads

\* ---------------------------------------------------------------------------
\* processTask and the log

\* the file has a line of this id with one of these statuses
HasLine(file, id, statuses) ==
    \E i \in DOMAIN file : file[i].id = id /\ file[i].status \in statuses

\* this step appends one line to the file: a line of this id with this status
AppendsLine(id, status) ==
    /\ logFile' = Append(logFile, logFile'[Len(logFile')])
    /\ logFile'[Len(logFile')].id = id
    /\ logFile'[Len(logFile')].status = status

\* this step records a metric of this name for this id
Emits(name, id) ==
    /\ Len(metrics'.recorded) = Len(metrics.recorded) + 1
    /\ metrics'.recorded[Len(metrics'.recorded)].name = name
    /\ metrics'.recorded[Len(metrics'.recorded)].value = id

\* the steps of processTask write the lines of a transaction of their own, in order
TransactionSteps ==
    \A w \in Workers :
        /\ (wk[w].pc = "pt_log" /\ wk'[w].pc = "pt_inprogress") =>
              /\ wk'[w].tx \notin DOMAIN txTask
              /\ ~HasLine(logFile, wk'[w].tx, {PENDING, IN_PROGRESS, COMPLETED, FAILED})
              /\ AppendsLine(wk'[w].tx, PENDING)
        /\ (wk[w].pc = "pt_inprogress" /\ wk'[w].pc = "pt_copy") =>
              AppendsLine(wk[w].tx, IN_PROGRESS)
        /\ (wk[w].pc = "pt_verify" /\ wk'[w].pc = "pt_final") =>
              (wk'[w].ok <=> (SourceFile(wk[w].task.path) # Missing
                                /\ SourceFile(wk[w].task.path) = DestFile(wk[w].task.path)))
        /\ (wk[w].pc = "pt_final" /\ wk'[w].pc \in {"pt_retry", "loop"}) =>
              /\ AppendsLine(wk[w].tx, IF wk[w].ok THEN COMPLETED ELSE FAILED)
              /\ ~wk[w].ok => logFile'[Len(logFile')].err # ""
              /\ Emits(IF wk[w].ok THEN "tx_completed" ELSE "tx_failed", wk[w].tx)

\* C29: an invocation of processTask that got an id got one no other
\* invocation has and no line carries; it appends the PENDING line, then the
\* IN_PROGRESS line, then one line that is COMPLETED when the copy and the
\* verification succeeded and FAILED with a message otherwise; tx_completed is
\* recorded for ids that have their COMPLETED line; and an invocation that got
\* an id does write the terminal line.
C29_TransactionPerAttempt ==
    /\ [][TransactionSteps]_vars
    /\ [](\A i \in DOMAIN metrics.recorded :
             metrics.recorded[i].name = "tx_completed" =>
                HasLine(logFile, metrics.recorded[i].value, {COMPLETED}))
    /\ \A w \in Workers :
          [](wk[w].pc = "pt_inprogress" =>
                <>HasLine(logFile, wk[w].tx, {COMPLETED, FAILED}))

\* the worker w makes a step of processTask from the place pc
WorkerStepsFrom(w, pc) ==
    /\ wk[w].pc = pc
    /\ ~crashed
    /\ wk'[w].pc # pc \/ crashed'

\* C30: with a log that is not open and cannot record, logTransaction returns
\* the empty id: processTask records tx_log_failed and returns, nothing is
\* copied or queued and the worker is back in its loop; and
\* updateTransactionStatus returns false, after which processTask goes on.
C30_LogFailureAbandonsTask ==
    [][\A w \in Workers :
          /\ (WorkerStepsFrom(w, "pt_log") /\ ~m_isOpen) =>
                /\ wk'[w].pc = "loop"
                /\ ~crashed'
                /\ Emits("tx_log_failed", wk[w].task.path)
                /\ UNCHANGED <<logFile, dstTree, m_tasks>>
          /\ (WorkerStepsFrom(w, "pt_inprogress") /\ ~m_isOpen) =>
                /\ wk'[w].pc = "pt_copy"
                /\ ~crashed'
                /\ UNCHANGED logFile
          /\ (WorkerStepsFrom(w, "pt_final") /\ ~m_isOpen) =>
                /\ wk'[w].pc \in {"pt_retry", "loop"}
                /\ ~crashed'
                /\ UNCHANGED logFile]_vars

\* C31: the step of processTask that follows the back-off queues a task with
\* the path and the priority of the failed one and retry_count + 1; when the
\* queue takes no task, tx_recovery_queue_failed is recorded for the
\* transaction; the worker is back in its loop in both cases.
C31_RetryEnqueueFailureRecorded ==
    [][\A w \in Workers :
          WorkerStepsFrom(w, "pt_retry") =>
             /\ wk'[w].pc = "loop"
             /\ ~crashed'
             /\ IF enqSeq' = enqSeq + 1
                THEN /\ \E i \in DOMAIN m_tasks' :
                           /\ m_tasks'[i].seq = enqSeq'
                           /\ m_tasks'[i].path = wk[w].task.path
                           /\ m_tasks'[i].prio = wk[w].task.prio
                           /\ m_tasks'[i].retry = wk[w].task.retry + 1
                     /\ wk[w].task.retry < MAX_RETRIES
                ELSE /\ m_tasks' = m_tasks
                     /\ Emits("tx_recovery_queue_failed", wk[w].tx)]_vars

(***************************************************************************)
(* Claims about the recovery worker.                                       *)
(***************************************************************************)
\* the recovery worker makes an iteration of its for loop, on the first record
\* of the list getPendingTransactions returned to it
RecoveryIterates ==
    /\ rec.pc = "iter"
    /\ rec.list # << >>
    /\ rec' # rec

\* this step queues a task
Enqueues == enqSeq' = enqSeq + 1

\* C32: an iteration of the recovery worker on a PENDING or IN_PROGRESS record,
\* as getPendingTransactions returned it to the pass, whose timestamp is less
\* than the grace period old writes nothing to the log, changes no cached
\* record, queues no task and records no recovery attempt; the loop goes on to
\* the next record.
C32_GracePeriodRespected ==
    [][(/\ RecoveryIterates
        /\ Head(rec.list).status \in {PENDING, IN_PROGRESS}
        /\ now - Head(rec.list).ts < GraceMinutes)
          => /\ UNCHANGED <<logFile, m_transactionCache, m_tasks, enqSeq, metrics>>
             /\ rec'.pc = "iter"
             /\ rec'.list = Tail(rec.list)]_vars

\* C32 witness: a pass found a transaction, is over and made no recovery
\* attempt, and the cached transaction is younger than the grace period, is
\* still PENDING or IN_PROGRESS and no RECOVERY task was queued
C32_Witness ==
    /\ rec.pc = "sleep"
    /\ \E i \in DOMAIN metrics.recorded : metrics.recorded[i].name = "recovery_started"
    /\ \A i \in DOMAIN metrics.recorded : metrics.recorded[i].name # "tx_recovery_attempt"
    /\ \E id \in DOMAIN m_transactionCache :
          /\ m_transactionCache[id].status \in {PENDING, IN_PROGRESS}
          /\ now - m_transactionCache[id].ts < GraceMinutes
    /\ \A i \in DOMAIN m_tasks : m_tasks[i].op # "RECOVERY"
    /\ \A j \in DOMAIN deqLog : deqLog[j].op # "RECOVERY"

\* the first record of the list of the pass is an orphan: PENDING or
\* IN_PROGRESS in the list and in the cache, and as old as the grace period
HeadIsOrphan ==
    /\ Head(rec.list).status \in {PENDING, IN_PROGRESS}
    /\ Head(rec.list).id \in DOMAIN m_transactionCache
    /\ m_transactionCache[Head(rec.list).id].status \in {PENDING, IN_PROGRESS}
    /\ now - Head(rec.list).ts >= GraceMinutes

\* recoverTransaction recorded tx_recovery_failed for this id
RecoveryFailed(id) ==
    \E i \in DOMAIN metrics.recorded :
        /\ metrics.recorded[i].name = "tx_recovery_failed"
        /\ metrics.recorded[i].value.id = id

\* C33: the iteration of the recovery worker on an orphan whose source file is
\* gone appends a FAILED line with the message "Source file no longer exists"
\* for the id of the orphan and queues no task, the transaction is FAILED
\* afterwards; and no later getPendingTransactions returns a transaction the
\* worker failed in this way.
C33_MissingSourceFails ==
    /\ [][(RecoveryIterates /\ HeadIsOrphan /\ SourceFile(Head(rec.list).src) = Missing)
            => /\ AppendsLine(Head(rec.list).id, FAILED)
               /\ logFile'[Len(logFile')].err = "Source file no longer exists"
               /\ ~Enqueues
               /\ m_tasks' = m_tasks
               /\ m_transactionCache'[Head(rec.list).id].status = FAILED]_vars
    /\ [][(rec.pc = "get2" /\ rec'.pc = "iter")
            => \A k \in DOMAIN rec'.list : ~RecoveryFailed(rec'.list[k].id)]_vars

(***************************************************************************)
(* The reconciliation pass: a run of the engine with performConsistencyCheck*)
(* requests, in which every copy of an existing source file succeeds.      *)
(***************************************************************************)
InitReconcile ==
    /\ InitEngine
    /\ InitOpenLog
    /\ srcTree = [p \in Paths |-> "v1"]
    /\ dstTree \in {[p \in Paths |-> "v0"], [p \in Paths |-> Missing]}
    /\ m_maxSize = DefaultMaxSize
    /\ logFile = << >>
    /\ relock \in {"deadlock", "throw"}
    /\ budget = [OneRun EXCEPT !.checks = MaxChecks]

ReconcileStep == ConsistencyWake \/ ConsistencyStart \/ ConsistencyEnqueue

NextReconcile ==
    \/ \E w \in Workers : WorkerStep(w)
    \/ ReconcileStep
    \/ RecoveryWake
    \/ StopStep
    \/ Start
    \/ StopCall
    \/ PerformConsistencyCheck
    \/ \E p \in Paths : DeleteSource(p)

SpecReconcile ==
    /\ InitReconcile
    /\ [][NextReconcile]_vars
    /\ \A w \in Workers : WF_vars(WorkerStep(w))
    /\ WF_vars(ReconcileStep)
    /\ WF_vars(RecoveryWake)
    /\ WF_vars(StopStep)

\* performFullConsistencyCheck makes an iteration of its loop over the results
ReconcileIterates ==
    /\ con.pc = "enqueue"
    /\ con.list # << >>
    /\ con' # con

\* verifyDirectory has just scanned the trees, and the source file p differed
\* from its copy
ScannedDiffering(p) ==
    /\ con.pc = "enqueue"
    /\ con.totalFiles = 0
    /\ srcTree[p] # Missing
    /\ dstTree[p] # Missing
    /\ srcTree[p] # dstTree[p]

\* C34: each iteration of the pass on a result with matches = false queues a
\* LOW task for the source directory / the key of the result and records
\* consistency_mismatch for the key, the pass ends with
\* consistency_check_complete and its two counts; and when the scan saw a
\* source file that differs from its copy, the copy gets the content of the
\* source file, unless the engine is stopped or the source file removed.
C34_ReconciliationRepairs ==
    /\ [][(ReconcileIterates /\ ~Head(con.list).matches)
            => /\ Enqueues
               /\ \E i \in DOMAIN m_tasks' :
                     /\ m_tasks'[i].seq = enqSeq'
                     /\ m_tasks'[i].prio = LOW
                     /\ m_tasks'[i].path = Head(con.list).rel
               /\ Emits("consistency_mismatch", Head(con.list).rel)
               /\ con'.mismatches = con.mismatches + 1
               /\ con'.totalFiles = con.totalFiles + 1]_vars
    /\ [][(con.pc = "enqueue" /\ con.list = << >> /\ con' # con)
            => Emits("consistency_check_complete",
                     [files |-> con.totalFiles, mismatches |-> con.mismatches])]_vars
    /\ \A p \in Paths :
          ScannedDiffering(p)
             ~> (dstTree[p] = srcTree[p] \/ ~m_running \/ srcTree[p] = Missing)

(***************************************************************************)
(* performConsistencyCheck requests: a run of the engine on trees that are *)
(* in sync, so that the checks queue nothing.                              *)
(***************************************************************************)
MaxRequests == 2

InitRequests ==
    /\ InitEngine
    /\ InitOpenLog
    /\ srcTree = [p \in Paths |-> "v1"]
    /\ dstTree = srcTree
    /\ m_maxSize = DefaultMaxSize
    /\ logFile = << >>
    /\ relock \in {"deadlock", "throw"}
    /\ budget = [OneRun EXCEPT !.checks = MaxRequests]

\* the steps of a worker that finds the queue empty
WorkerIdles(w) == WorkerLoop(w) \/ WorkerDequeue(w)

NextRequests ==
    \/ \E w \in Workers : WorkerIdles(w)
    \/ ReconcileStep
    \/ RecoveryWake
    \/ StopStep
    \/ Start
    \/ StopCall
    \/ PerformConsistencyCheck

SpecRequests ==
    /\ InitRequests
    /\ [][NextRequests]_vars
    /\ \A w \in Workers : WF_vars(WorkerIdles(w))
    /\ WF_vars(ReconcileStep)
    /\ WF_vars(RecoveryWake)
    /\ WF_vars(StopStep)

\* the performConsistencyCheck calls made so far
Requests == MaxRequests - budget.checks

C36_NoSelfDeadlock ==
    /\ logMutex = NoThread
    /\ rec.pc # "deadlock"


(***************************************************************************)
(* Runs of the engine that is started again after stop(), with syncFile    *)
(* and batchSync calls.                                                    *)
(***************************************************************************)
InitRestart ==
    /\ InitCommon
    /\ m_maxSize = DefaultMaxSize
    /\ logFile = << >>
    /\ relock \in {"deadlock", "throw"}
    /\ budget = [NoBudget EXCEPT !.starts = MaxCalls, !.stops = MaxCalls, !.sync = MaxSync,
                                 !.batches = MaxBatches, !.faults = MaxFaults]

NextRestart ==
    \/ \E w \in Workers : WorkerStep(w)
    \/ ConsistencyStep
    \/ RecoveryWake
    \/ StopStep
    \/ Start
    \/ StopCall
    \/ \E p \in Paths : SyncFileCall(p, NORMAL)
    \/ SyncFileEnqueue
    \/ \E paths \in Batches : BatchSyncCall(paths)
    \/ BatchSyncEnqueue

SpecRestart == InitRestart /\ [][NextRestart]_vars

\* a syncFile or batchSync call returns true in this step
ReturnsTrue ==
    /\ api'.pc = "idle"
    /\ api'.res
    /\ api.pc # "idle" \/ Called("sync") \/ Called("batches")

\* C37: once stop() has shut the queue down, the flag stays set, whatever is
\* called afterwards, start() included: no step inserts a task into the queue
\* and no syncFile or batchSync call returns true.
C37_ShutdownIrreversible ==
    [][m_shutdown => /\ m_shutdown'
                     /\ ~Enqueues
                     /\ Len(m_tasks') <= Len(m_tasks)
                     /\ ~ReturnsTrue]_vars

\* batchSync is called with no path while the engine runs, and returns in
\* this step
EmptyBatchReturns ==
    /\ Called("batches")
    /\ m_running
    /\ api.pc = "idle"
    /\ api'.pc = "idle"

\* C37 as it holds: once stop() has shut the queue down, the flag stays set, no
\* step inserts a task into the queue, and the only call that returns true is
\* a batchSync call with no path made while the engine runs again.
C37_ShutdownIrreversibleButEmptyBatch ==
    [][m_shutdown => /\ m_shutdown'
                     /\ ~Enqueues
                     /\ Len(m_tasks') <= Len(m_tasks)
                     /\ ReturnsTrue => EmptyBatchReturns]_vars

\* C37 witness: the engine was stopped and started again, it runs, and a
\* syncFile call has reached enqueue and returned false
C37_Witness ==
    /\ m_shutdown
    /\ m_running
    /\ Len(SelectSeq(smMetric, LAMBDA x : x = "started")) = 2
    /\ api.pc = "idle"
    /\ ~api.res
    /\ api.metric = "file_queue_failed"
    /\ budget.sync < MaxSync


(***************************************************************************)
(* Runs of the engine on a log directory that holds the orphan of an       *)
(* earlier process, with several passes of the recovery worker.            *)
(***************************************************************************)
\* the log an earlier process left behind
OrphanLog == CHOOSE l \in InitialLogs : l # << >>

InitRecover ==
    /\ InitCommon
    /\ m_maxSize = DefaultMaxSize
    /\ logFile = OrphanLog
    /\ relock \in {"deadlock", "throw"}
    /\ budget = [OneRun EXCEPT !.passes = MaxRecoveryPasses, !.sync = MaxSync,
                               !.faults = MaxFaults]

NextRecover ==
    \/ \E w \in Workers : WorkerStep(w)
    \/ RecoveryStep
    \/ ConsistencyStep
    \/ StopStep
    \/ Start
    \/ StopCall
    \/ \E p \in Paths : SyncFileCall(p, NORMAL)
    \/ SyncFileEnqueue

SpecRecover == InitRecover /\ [][NextRecover]_vars

\* the tx_recovery_queued metrics recorded for this transaction
RecoveryQueued(id) ==
    {i \in DOMAIN metrics.recorded :
        /\ metrics.recorded[i].name = "tx_recovery_queued"
        /\ metrics.recorded[i].value = id}

\* C38: over the life of the engine recoverTransaction queues at most one
\* RECOVERY task for a transaction, and getPendingTransactions does not return
\* to a later pass a transaction a pass has queued again.
C38_RecoveredOnce ==
    /\ [](\A k \in DOMAIN logFile : Cardinality(RecoveryQueued(logFile[k].id)) <= 1)
    /\ [][(rec.pc = "get2" /\ rec'.pc = "iter")
            => \A k \in DOMAIN rec'.list : RecoveryQueued(rec'.list[k].id) = {}]_vars

\* verifyDirectory scans the trees in this step
Scans ==
    /\ con.pc = "woken"
    /\ con'.pc = "enqueue"

\* C39: every result of the scan that the pass queues a task for names, under
\* the source directory, a path that was a regular file when the trees were
\* scanned; the pass queues tasks for the paths of these results only; and it
\* queues nothing for an "Extra file in destination" result.
C39_TasksNameScannedSources ==
    /\ [][Scans => \A k \in DOMAIN con'.list :
                      ~con'.list[k].matches => SourceFile(con'.list[k].rel) # Missing]_vars
    /\ [][(ReconcileIterates /\ Enqueues)
            => /\ ~Head(con.list).matches
               /\ \E i \in DOMAIN m_tasks' :
                     /\ m_tasks'[i].seq = enqSeq'
                     /\ m_tasks'[i].path = Head(con.list).rel]_vars
    /\ [][(ReconcileIterates /\ Head(con.list).err = "Extra file in destination")
            => ~Enqueues]_vars

(***************************************************************************)
(* PrioritySyncQueue under concurrent enqueue, dequeue and shutdown calls. *)
(***************************************************************************)
\* the ordinals of the successful enqueues whose tasks are in this sequence
SeqsIn(tasks) == {tasks[i].seq : i \in DOMAIN tasks}

\* C40: every task a dequeue returned was queued by a successful enqueue, no
\* task was returned by two dequeue calls or is still queued after a dequeue
\* returned it, every task of a successful enqueue is in the queue or was
\* returned, and size() is the number of successful enqueues minus the number
\* of successful dequeues.
C40_NoLossNoDuplication ==
    /\ SeqsIn(deqLog) \subseteq 1..enqSeq
    /\ \A i, j \in DOMAIN deqLog : deqLog[i].seq = deqLog[j].seq => i = j
    /\ \A i, j \in DOMAIN m_tasks : m_tasks[i].seq = m_tasks[j].seq => i = j
    /\ SeqsIn(deqLog) \cap SeqsIn(m_tasks) = {}
    /\ SeqsIn(deqLog) \cup SeqsIn(m_tasks) = 1..enqSeq
    /\ Len(m_tasks) = enqSeq - Len(deqLog)

\* C40 witness: the queue was shut down while it held tasks, three enqueues
\* succeeded, one was refused, two tasks have been returned, one of them to a
\* thread that slept in dequeue, and one task is still queued
C40_Witness ==
    /\ m_shutdown
    /\ atStop # {}
    /\ enqSeq = 3
    /\ Len(deqLog) = 2
    /\ Len(m_tasks) = 1
    /\ \E t \in QueueCallers : waiters[t].op = "enqueue" /\ waiters[t].res = "false"
    /\ \E t \in QueueCallers : /\ waiters[t].op = "dequeue" /\ waiters[t].res = "task"
                               /\ waiters[t].how = "notified"
====
